---- MODULE Spec2Model ----
(***************************************************************************)
(* A model of the device-communication stack of prismo:                    *)
(*   - the packet framing of devices/fluidic/packet.py (PacketStream),     *)
(*   - the shared serial-port registry of devices/ports.py (Port),         *)
(*   - the ASI stage/focus command exchange of devices/asi.py,             *)
(*   - the request/response protocol of devices/fluidic/fluidic.py         *)
(*     (FlowController), its device discovery and its Sipper,              *)
(*   - the valve bank of devices/microfluidic.py (ValveDriver, Valves,     *)
(*     TreeValves, Chip),                                                  *)
(*   - run and its worker thread (session.py, run.py), tile_coords,        *)
(*   - the device selection of Control (control.py).                       *)
(* Each part has its own specification (SpecCodec, SpecStream, SpecPort,   *)
(* SpecAsi, SpecFlow, SpecDisc, SpecTree, SpecPoll, SpecBank, SpecChip,    *)
(* SpecMux, SpecSip, SpecRun, SpecControl, SpecTile); the variables of the *)
(* other parts stay at their initial values.                               *)
(***************************************************************************)
EXTENDS Integers, Sequences, FiniteSets, TLC

VARIABLES
    \* ---- PacketStream (packet.py) ----
    data,        \* the payload handed to PacketStream.write
    wire,        \* bytes written to the socket and not yet read back
    res,         \* outcome of the last PacketStream.read: [status, out]
    cpc,         \* position of the codec exchange: "idle", "written", "read"
    seen,        \* (history) the bytes on the socket when the last read began
    \* ---- Port registry (ports.py) ----
    serials,     \* _serials: port name -> connection (index into conns)
    refcounts,   \* _refcounts: port name -> reference count
    locks,       \* _locks: port name -> lock (index into lock_held)
    class_lock,  \* _class_lock: the thread holding it, 0 when free
    lock_held,   \* every threading.Lock made for a port: its holder, 0 when free
    conns,       \* every serial.Serial made: [port, open, closes, rx]
    hstate,      \* each Port object: "none" (not constructed), "init", "live"
    hname,       \* Port._name
    hclosed,     \* Port._closed
    hconn,       \* (history) the connection registered when the Port was made
    hdecs,       \* (history) how often close() of the Port decremented the count
    pc,          \* each thread's position
    th,          \* each thread's locals
    \* ---- ASI controller behind a port (asi.py) ----
    ctl,         \* commands the controller received and has not answered yet
    cmd_resp,    \* the response line each thread's last _cmd read (0: none)
    ncmds,       \* number of _cmd calls each thread has started
    timeouts,    \* (history) some readline of a _cmd returned without a line
    \* ---- FlowController and its device (fluidic.py) ----
    fpc,         \* position of the caller: "idle", or "wrote" (request written)
    fcode,       \* assert_code of the operation under way (None when idle)
    nops,        \* number of operations started on the FlowController
    tx,          \* bytes written to the socket that the device has not taken yet
    fline,       \* bytes the device has sent and the host has not read yet
    fown,        \* (history) for each byte of fline, the request it answers
    farrived,    \* how many bytes of fline are in the socket's input buffer
    dev_n,       \* number of requests the device has answered
    fhist,       \* (history) per operation: request frame, response, outcome
    \* ---- PacketStream.__init__ (packet.py): device discovery ----
    dpc,         \* position in __init__: "scan", "opened", "close", "after_loop", "done"
    dports,      \* list_ports.comports(): per port [vidpid, stale, answer]
    did,         \* the device_id argument
    di,          \* number of ports the for loop has gone through
    dopen,       \* the ports whose serial.Serial is open
    dsock,       \* self._socket: the port it was opened on, 0 when unset
    dfound,      \* device_found
    dres,        \* how __init__ ended: "none", "ok", "ConnectionError"
    dsent,       \* (history) the bytes written to each port
    dlog,        \* (history) the ports opened, in order
    \* ---- Valve bank (microfluidic.py) ----
    coils,       \* the coils of the Modbus device: address -> BOOLEAN
    vtree,       \* the TreeValves of the chip, as __init__ left it
    vgrp,        \* Valves._valves of the chip's Valves group
    vcall,       \* the TreeValves.state setter under way or last completed
    vobs,        \* what the last reading operation returned (cleared by writes)
    \* ---- Chip (microfluidic.py) ----
    vmap,        \* Chip._mapping: path name -> the kind of its valves
    vattrs,      \* the names in the instance __dict__ of the Chip
    \* ---- Sipper (devices/fluidic/fluidic.py) ----
    scfg,        \* the Sipper's configuration (a1_pos, h12_pos, z_bottom, mapping)
    sip,         \* the Sipper's cached fields (_xyz, _well, _valve, _frequency, _voltage)
    sdev,        \* what the devices last acknowledged
    scall,       \* the last Sipper operation, the commands it wrote and its outcome
    sops,        \* number of Sipper operations performed
    \* ---- run and its Runner (session.py, run.py) ----
    rimpl,       \* which run() was called: "session" (session.py, gui.py) or "run" (run.py)
    rgen,        \* number of yield statements the generator goes through
    rmain,       \* position of the calling thread
    rrunning,    \* the Event _running
    rquit,       \* the Event _quit
    wpc,         \* position of the worker thread in run_worker
    gpos,        \* number of yields the generator has reached
    rlog,        \* (history) the generator segments executed, in order
    wend,        \* how run_worker ended: "", "break", "exhausted"
    rcalls,      \* number of calls the calling thread has made on the runner
    rhist,       \* (history) what was called, and the worker's progress since quit() returned
    \* ---- Control (control.py) ----
    devices,     \* Control.devices: the device list, each with its name and protocols
    active,      \* Control._camera, _stage, _focus: positions in devices, 0 for None
    dstate,      \* the state attribute of each device
    kobs,        \* what the last call on the Control was and how it ended
    \* ---- tile_coords (run.py) ----
    targs,       \* the arguments of tile_coords and what ctrl.snap() and ctrl.px_len give
    tres         \* how the call ended and the arrays it returned

codec_vars == <<data, wire, res, cpc, seen>>
registry_vars == <<serials, refcounts, locks, class_lock, lock_held, conns>>
handle_vars == <<hstate, hname, hclosed, hconn, hdecs>>
thread_vars == <<pc, th>>
asi_vars == <<ctl, cmd_resp, ncmds, timeouts>>
port_vars == <<registry_vars, handle_vars, thread_vars, asi_vars>>
flow_vars == <<fpc, fcode, nops, tx, fline, fown, farrived, dev_n, fhist>>
disc_vars == <<dpc, dports, did, di, dopen, dsock, dfound, dres, dsent, dlog>>
valve_vars == <<coils, vtree, vgrp, vcall, vobs>>
chip_vars == <<vmap, vattrs>>
sip_vars == <<scfg, sip, sdev, scall, sops>>
run_vars == <<rimpl, rgen, rmain, rrunning, rquit, wpc, gpos, rlog, wend, rcalls, rhist>>
control_vars == <<devices, active, dstate, kobs>>
tile_vars == <<targs, tres>>
nonport_vars == <<codec_vars, flow_vars, disc_vars, valve_vars, chip_vars, sip_vars, run_vars, control_vars, tile_vars>>
noncodec_vars == <<port_vars, flow_vars, disc_vars, valve_vars, chip_vars, sip_vars, run_vars, control_vars, tile_vars>>
nonflow_vars == <<codec_vars, port_vars, disc_vars, valve_vars, chip_vars, sip_vars, run_vars, control_vars, tile_vars>>
nondisc_vars == <<codec_vars, port_vars, flow_vars, valve_vars, chip_vars, sip_vars, run_vars, control_vars, tile_vars>>
nonvalve_vars == <<codec_vars, port_vars, flow_vars, disc_vars, chip_vars, sip_vars, run_vars, control_vars, tile_vars>>
\* The Chip works on the valve bank: what neither of the two owns.
nonchip_vars == <<codec_vars, port_vars, flow_vars, disc_vars, sip_vars, run_vars, control_vars, tile_vars>>
nonsip_vars == <<codec_vars, port_vars, flow_vars, disc_vars, valve_vars, chip_vars, run_vars, control_vars, tile_vars>>
nonrun_vars == <<codec_vars, port_vars, flow_vars, disc_vars, valve_vars, chip_vars, sip_vars, control_vars, tile_vars>>
noncontrol_vars == <<codec_vars, port_vars, flow_vars, disc_vars, valve_vars, chip_vars, sip_vars, run_vars, tile_vars>>
nontile_vars == <<codec_vars, port_vars, flow_vars, disc_vars, valve_vars, chip_vars, sip_vars, run_vars, control_vars>>
vars == <<codec_vars, port_vars, flow_vars, disc_vars, valve_vars, chip_vars, sip_vars, run_vars, control_vars, tile_vars>>

(***************************************************************************)
(* Bounds and program constants.                                           *)
(***************************************************************************)
\* Number of blocks a payload is built from.
MaxBlocks == 4
\* `offset == 255` in PacketStream.write, `prev_size != 255` in read.
MaxCode == 255
\* Length of the long zero-free block: one byte short of a full run.
LongRun == 253
\* Threads that use the port registry.
NThreads == 2
\* Port objects that may be constructed.
NHandles == 3
\* _cmd calls a thread may start.
MaxCmds == 2
\* Operations called on the FlowController.
MaxOps == 2
\* Length of a raw byte stream handed to PacketStream.read.
MaxStream == 6
\* Serial ports list_ports.comports() reports.
MaxPorts == 3
\* Opcodes (fluidic.py, class Code).
FLOW_SENSOR_INFO == 1
SET_PUMP_RPM == 2
GET_PUMP_RPM == 3
FAIL == 255

(***************************************************************************)
(* Helpers on byte sequences.                                              *)
(***************************************************************************)
Run(n, b) == [i \in 1..n |-> b]

HasZero(s) == \E i \in 1..Len(s) : s[i] = 0

\* Index of the first zero byte of s, 0 when there is none.
FirstZero(s) ==
    IF HasZero(s) THEN CHOOSE i \in 1..Len(s) : s[i] = 0 /\ \A j \in 1..(i-1) : s[j] # 0
    ELSE 0

\* Index of the first nonzero byte of s, 0 when there is none.
FirstNonZero(s) ==
    IF \E i \in 1..Len(s) : s[i] # 0
    THEN CHOOSE i \in 1..Len(s) : s[i] # 0 /\ \A j \in 1..(i-1) : s[j] = 0
    ELSE 0

Drop(s, n) == SubSeq(s, n + 1, Len(s))

(***************************************************************************)
(* PacketStream.write: the frame put on the socket for a request.          *)
(***************************************************************************)
\* WriteStep with the length byte written as the number of data bytes of the
\* run instead of 1 + that number.
WriteStepShortLen(st, b) ==
    LET out1 == IF b # 0 THEN Append(st.out, b) ELSE st.out
        offset1 == IF b # 0 THEN st.offset + 1 ELSE st.offset
    IN  IF b = 0 \/ offset1 = MaxCode
        THEN [out |-> [Append(out1, 0) EXCEPT ![st.offset_idx + 1] = offset1 - 1],
              offset |-> 1,
              offset_idx |-> Len(out1)]
        ELSE [out |-> out1, offset |-> offset1, offset_idx |-> st.offset_idx]

\* One iteration of `for b in data` (packet.py lines 37-45).  offset_idx is
\* the 0-based Python index, so the sequence position is offset_idx + 1.
WriteStep(st, b) ==
    LET out1 == IF b # 0 THEN Append(st.out, b) ELSE st.out
        offset1 == IF b # 0 THEN st.offset + 1 ELSE st.offset
    IN  IF b = 0 \/ offset1 = MaxCode
        THEN [out |-> [Append(out1, 0) EXCEPT ![st.offset_idx + 1] = offset1],
              offset |-> 1,
              offset_idx |-> Len(out1)]
        ELSE [out |-> out1, offset |-> offset1, offset_idx |-> st.offset_idx]

\* The for loop over data[lo..hi], evaluated by halving the range (the state
\* after the first half is bound as a value before the second half runs) so
\* that the evaluation depth stays logarithmic in the payload length.
RECURSIVE WriteLoop(_, _, _, _)
WriteLoop(d, lo, hi, st) ==
    IF lo > hi THEN st
    ELSE IF lo = hi THEN WriteStep(st, d[lo])
    ELSE LET mid == (lo + hi) \div 2
         IN  CHOOSE r \in { WriteLoop(d, mid + 1, hi, left) :
                              left \in { WriteLoop(d, lo, mid, st) } } : TRUE

\* The bytes PacketStream.write(d) hands to socket.write; <<>> when it
\* returns without writing (empty request).
PacketStream_write(d) ==
    IF Len(d) = 0 THEN <<>>
    ELSE LET st == WriteLoop(d, 1, Len(d), [out |-> <<0>>, offset |-> 1, offset_idx |-> 0])
         IN  IF st.offset_idx # Len(st.out) - 1 \/ d[Len(d)] = 0
             THEN Append([st.out EXCEPT ![st.offset_idx + 1] = st.offset], 0)
             ELSE st.out

(***************************************************************************)
(* PacketStream.read on the byte stream s waiting on the socket.  The      *)
(* result is [status, out, rest]: status "ok" with the decoded payload,    *)
(* "timeout" (TimeoutError) or "corrupt" (ValueError); rest is what is     *)
(* left on the socket.  A read that times out has consumed every byte that *)
(* was available.                                                          *)
(***************************************************************************)
Timeout == [status |-> "timeout", out |-> <<>>, rest |-> <<>>]

\* The body of `while size != 0` (packet.py lines 59-71), entered with the
\* length byte `size` already read and `s` the bytes after it.
RECURSIVE ReadLoop(_, _, _)
ReadLoop(s, size, out) ==
    IF Len(s) < size - 1 THEN Timeout
    ELSE
      LET buf == SubSeq(s, 1, size - 1)
          s1 == Drop(s, size - 1)
      IN  IF HasZero(buf)
          THEN \* resynchronise: read single bytes up to the next zero
               IF FirstZero(s1) = 0 THEN Timeout
               ELSE [status |-> "corrupt", out |-> <<>>, rest |-> Drop(s1, FirstZero(s1))]
          ELSE IF Len(s1) < 1 THEN Timeout
          ELSE LET next == s1[1]
                   s2 == Drop(s1, 1)
               IN  IF next = 0 THEN [status |-> "ok", out |-> out \o buf, rest |-> s2]
                   ELSE IF size # MaxCode THEN ReadLoop(s2, next, Append(out \o buf, 0))
                   ELSE ReadLoop(s2, next, out \o buf)

\* PacketStream.read with the delimiter re-inserted after every run, also
\* after a run that was cut at the 254-byte cap.
RECURSIVE ReadLoopAlwaysZero(_, _, _)
ReadLoopAlwaysZero(s, size, out) ==
    IF Len(s) < size - 1 THEN Timeout
    ELSE
      LET buf == SubSeq(s, 1, size - 1)
          s1 == Drop(s, size - 1)
      IN  IF HasZero(buf)
          THEN IF FirstZero(s1) = 0 THEN Timeout
               ELSE [status |-> "corrupt", out |-> <<>>, rest |-> Drop(s1, FirstZero(s1))]
          ELSE IF Len(s1) < 1 THEN Timeout
          ELSE IF s1[1] = 0 THEN [status |-> "ok", out |-> out \o buf, rest |-> Drop(s1, 1)]
          ELSE ReadLoopAlwaysZero(Drop(s1, 1), s1[1], Append(out \o buf, 0))

PacketStream_read_AlwaysZero(s) ==
    LET k == FirstNonZero(s)
    IN  IF k = 0 THEN Timeout
        ELSE ReadLoopAlwaysZero(Drop(s, k), s[k], <<>>)

\* PacketStream.read with a _timeout_read that hands a short read back to
\* the decoder instead of raising: the frame ends where the bytes end.
RECURSIVE ReadLoopShortOk(_, _, _)
ReadLoopShortOk(s, size, out) ==
    IF Len(s) < size - 1 THEN [status |-> "ok", out |-> out \o s, rest |-> <<>>]
    ELSE
      LET buf == SubSeq(s, 1, size - 1)
          s1 == Drop(s, size - 1)
      IN  IF HasZero(buf)
          THEN IF FirstZero(s1) = 0 THEN Timeout
               ELSE [status |-> "corrupt", out |-> <<>>, rest |-> Drop(s1, FirstZero(s1))]
          ELSE IF Len(s1) < 1 THEN [status |-> "ok", out |-> out \o buf, rest |-> <<>>]
          ELSE IF s1[1] = 0 THEN [status |-> "ok", out |-> out \o buf, rest |-> Drop(s1, 1)]
          ELSE IF size # MaxCode
               THEN ReadLoopShortOk(Drop(s1, 1), s1[1], Append(out \o buf, 0))
          ELSE ReadLoopShortOk(Drop(s1, 1), s1[1], out \o buf)

PacketStream_read_ShortOk(s) ==
    LET k == FirstNonZero(s)
    IN  IF k = 0 THEN Timeout
        ELSE ReadLoopShortOk(Drop(s, k), s[k], <<>>)

PacketStream_read(s) ==
    \* `while size == 0`: skip zero bytes up to the first length byte
    LET k == FirstNonZero(s)
    IN  IF k = 0 THEN Timeout
        ELSE ReadLoop(Drop(s, k), s[k], <<>>)

(***************************************************************************)
(* Payloads: concatenations of up to MaxBlocks blocks; a block is a zero   *)
(* byte, a small byte, the largest byte, or a long zero-free run.          *)
(***************************************************************************)
Blocks == { <<0>>, <<1>>, <<255>>, Run(LongRun, 7) }

RECURSIVE PayloadsOf(_)
PayloadsOf(k) ==
    IF k = 0 THEN { <<>> }
    ELSE LET prev == PayloadsOf(k - 1)
         IN  prev \cup { p \o b : p \in prev, b \in Blocks }

Payloads == PayloadsOf(MaxBlocks)

(***************************************************************************)
(* Port registry (ports.py).  A Python dict is a function whose domain is  *)
(* its key set.                                                            *)
(***************************************************************************)
Threads == 1..NThreads
Handles == 1..NHandles
\* Names of serial ports Port objects are constructed for.
Ports == {"COM1", "COM2"}
\* The port on which the ASI controller is found (asi.py VID/PID).
AsiPort == "ASI"

EmptyDict == [k \in {} |-> 0]
Put(d, k, v) == [x \in DOMAIN d \cup {k} |-> IF x = k THEN v ELSE d[x]]
Pop(d, k) == [x \in DOMAIN d \ {k} |-> d[x]]

\* A thread's locals: the Port it works on (self), the port name, the lock
\* and connection objects it looked up, the operation, close()'s `s`, and
\* whether the operation is part of a Stage/Focus._cmd.
NoLocals == [h |-> 0, port |-> "", lock |-> 0, conn |-> 0, op |-> "", s |-> 0,
             cmd |-> FALSE]

\* serial.Serial(port, **kwargs): a new open connection object.
NewConn(n) == [port |-> n, open |-> TRUE, closes |-> 0, rx |-> <<>>]

RegistryInit ==
    /\ serials = EmptyDict
    /\ refcounts = EmptyDict
    /\ locks = EmptyDict
    /\ class_lock = 0
    /\ lock_held = <<>>
    /\ conns = <<>>

HandlesInit ==
    /\ hstate = [h \in Handles |-> "none"]
    /\ hname = [h \in Handles |-> ""]
    /\ hclosed = [h \in Handles |-> FALSE]
    /\ hconn = [h \in Handles |-> 0]
    /\ hdecs = [h \in Handles |-> 0]

ThreadsInit ==
    /\ pc = [t \in Threads |-> "idle"]
    /\ th = [t \in Threads |-> NoLocals]

AsiIdle ==
    /\ ctl = <<>>
    /\ cmd_resp = [t \in Threads |-> 0]
    /\ ncmds = [t \in Threads |-> 0]
    /\ timeouts = FALSE

\* assert_code's default in FlowController._read_packet.
None == 0 - 1

\* A FlowController on which no operation was called yet; nothing on the line.
FlowIdle ==
    /\ fpc = "idle"
    /\ fcode = None
    /\ nops = 0
    /\ tx = <<>>
    /\ fline = <<>>
    /\ fown = <<>>
    /\ farrived = 0
    /\ dev_n = 0
    /\ fhist = <<>>

\* No PacketStream is being constructed.
DiscIdle ==
    /\ dpc = "done"
    /\ dports = <<>>
    /\ did = 0
    /\ di = 0
    /\ dopen = {}
    /\ dsock = 0
    /\ dfound = FALSE
    /\ dres = "none"
    /\ dsent = <<>>
    /\ dlog = <<>>

\* The labels of a TreeValves: the integers of the default table and the
\* strings of the configuration, kept apart as Python keeps 0 and "0" apart.
IntLabel(i) == [int |-> TRUE, n |-> i, s |-> ""]
StrLabel(x) == [int |-> FALSE, n |-> 0, s |-> x]
NoLabel == StrLabel("")
OpenLabel == StrLabel("open")
ClosedLabel == StrLabel("closed")
InvalidLabel == StrLabel("invalid")
NoCall == [label |-> NoLabel, plan |-> <<>>, prev |-> {}, log |-> <<>>]
NoObs ==
    [op |-> "none", idx |-> 0, other |-> "", result |-> NoLabel, flag |-> FALSE,
     req |-> "none", addr |-> 0, arg |-> NoLabel]

\* No valve bank is connected.
ValveIdle ==
    /\ coils = <<>>
    /\ vtree = <<>>
    /\ vgrp = <<>>
    /\ vcall = NoCall
    /\ vobs = NoObs

\* No Chip was constructed.
ChipIdle ==
    /\ vmap = <<>>
    /\ vattrs = {}

\* No Sipper was constructed.
SipIdle ==
    /\ scfg = <<>>
    /\ sip = <<>>
    /\ sdev = <<>>
    /\ scall = <<>>
    /\ sops = 0

NoHist ==
    [paused |-> FALSE, quit_called |-> FALSE, quit_returned |-> FALSE, alive |-> FALSE,
     after |-> 0, last |-> "none", before_join |-> "none", joined |-> FALSE,
     passed |-> "none",
     returned |-> "none"]

\* run() was not called.
RunIdle ==
    /\ rimpl = "none"
    /\ rgen = 0
    /\ rmain = "none"
    /\ rrunning = FALSE
    /\ rquit = FALSE
    /\ wpc = "none"
    /\ gpos = 0
    /\ rlog = <<>>
    /\ wend = ""
    /\ rcalls = 0
    /\ rhist = NoHist

\* No Control was constructed.
NoActive == [camera |-> 0, stage |-> 0, focus |-> 0]
NoCtlObs == [op |-> "none", name |-> "", result |-> ""]
ControlIdle ==
    /\ devices = <<>>
    /\ active = NoActive
    /\ dstate = <<>>
    /\ kobs = NoCtlObs

\* tile_coords was not called.
NoTiles == [status |-> "none", xs |-> <<>>, ys |-> <<>>]
TileIdle ==
    /\ targs = <<>>
    /\ tres = NoTiles

\* The module state at import: empty registry, no Port constructed.
PortInit == RegistryInit /\ HandlesInit /\ ThreadsInit /\ AsiIdle

Goto(t, l) == pc' = [pc EXCEPT ![t] = l]
Return(t) == pc' = [pc EXCEPT ![t] = "idle"] /\ th' = [th EXCEPT ![t] = NoLocals]

(*-------------------------- Port.__init__ --------------------------------*)
\* Port(port=n): thread t starts constructing Port object h, the first one
\* not constructed yet (Port objects are interchangeable before they are
\* constructed).
PortInit_Start(t, h, n) ==
    /\ pc[t] = "idle"
    /\ hstate[h] = "none"
    /\ \A g \in 1..(h - 1) : hstate[g] # "none"
    /\ hstate' = [hstate EXCEPT ![h] = "init"]
    /\ th' = [th EXCEPT ![t] = [NoLocals EXCEPT !.h = h, !.port = n]]
    /\ Goto(t, "init_lock")
    /\ UNCHANGED <<registry_vars, hname, hclosed, hconn, hdecs, asi_vars>>
    /\ UNCHANGED nonport_vars

\* `with _class_lock:` and the test `if port not in _serials`.
PortInit_Lock(t) ==
    /\ pc[t] = "init_lock"
    /\ class_lock = 0
    /\ class_lock' = t
    /\ Goto(t, IF th[t].port \in DOMAIN serials THEN "init_incr" ELSE "init_open")
    /\ UNCHANGED <<serials, refcounts, locks, lock_held, conns, handle_vars, th, asi_vars>>
    /\ UNCHANGED nonport_vars

\* `_serials[port] = serial.Serial(port, **kwargs)`
PortInit_Open(t) ==
    /\ pc[t] = "init_open"
    /\ conns' = Append(conns, NewConn(th[t].port))
    /\ serials' = Put(serials, th[t].port, Len(conns) + 1)
    /\ Goto(t, "init_ref0")
    /\ UNCHANGED <<refcounts, locks, class_lock, lock_held, handle_vars, th, asi_vars>>
    /\ UNCHANGED nonport_vars

\* `_refcounts[port] = 0`
PortInit_Ref0(t) ==
    /\ pc[t] = "init_ref0"
    /\ refcounts' = Put(refcounts, th[t].port, 0)
    /\ Goto(t, "init_mklock")
    /\ UNCHANGED <<serials, locks, class_lock, lock_held, conns, handle_vars, th, asi_vars>>
    /\ UNCHANGED nonport_vars

\* `_locks[port] = threading.Lock()`
PortInit_MkLock(t) ==
    /\ pc[t] = "init_mklock"
    /\ lock_held' = Append(lock_held, 0)
    /\ locks' = Put(locks, th[t].port, Len(lock_held) + 1)
    /\ Goto(t, "init_incr")
    /\ UNCHANGED <<serials, refcounts, class_lock, conns, handle_vars, th, asi_vars>>
    /\ UNCHANGED nonport_vars

\* A constructor that counts its handle twice.
IncrCountTwice(n) == refcounts[n] + 2

\* The new reference count written by `_refcounts[port] += 1`.
IncrCount(n) == refcounts[n] + 1

\* `_refcounts[port] += 1`, the end of the with block, and the assignments
\* to self._name and self._closed.
PortInit_Incr(t) ==
    /\ pc[t] = "init_incr"
    /\ refcounts' = [refcounts EXCEPT ![th[t].port] = IncrCount(th[t].port)]
    /\ class_lock' = 0
    /\ hstate' = [hstate EXCEPT ![th[t].h] = "live"]
    /\ hname' = [hname EXCEPT ![th[t].h] = th[t].port]
    /\ hclosed' = [hclosed EXCEPT ![th[t].h] = FALSE]
    /\ hconn' = [hconn EXCEPT ![th[t].h] = serials[th[t].port]]
    /\ Return(t)
    /\ UNCHANGED <<serials, locks, lock_held, conns, hdecs, asi_vars>>
    /\ UNCHANGED nonport_vars

(*----------------------------- Port.close --------------------------------*)
\* Thread t calls close() on the constructed Port h (explicitly or from
\* the finalizer).
Close_Start(t, h) ==
    /\ pc[t] = "idle"
    /\ hstate[h] = "live"
    /\ th' = [th EXCEPT ![t] = [NoLocals EXCEPT !.h = h, !.port = hname[h]]]
    /\ Goto(t, "close_lock")
    /\ UNCHANGED <<registry_vars, handle_vars, asi_vars>>
    /\ UNCHANGED nonport_vars

\* `with _class_lock:`
Close_Lock(t) ==
    /\ pc[t] = "close_lock"
    /\ class_lock = 0
    /\ class_lock' = t
    /\ Goto(t, "close_check")
    /\ UNCHANGED <<serials, refcounts, locks, lock_held, conns, handle_vars, th, asi_vars>>
    /\ UNCHANGED nonport_vars

\* Whether close() returns at `if self._closed: return`.
AlreadyClosedNeverSet(h) == FALSE

AlreadyClosed(h) == hclosed[h]

\* `if self._closed: return` / `self._closed = True`
Close_Check(t) ==
    /\ pc[t] = "close_check"
    /\ IF AlreadyClosed(th[t].h)
       THEN /\ class_lock' = 0
            /\ Return(t)
            /\ UNCHANGED hclosed
       ELSE /\ hclosed' = [hclosed EXCEPT ![th[t].h] = TRUE]
            /\ Goto(t, "close_decr")
            /\ UNCHANGED <<class_lock, th>>
    /\ UNCHANGED <<serials, refcounts, locks, lock_held, conns, hstate, hname, hconn,
                   hdecs, asi_vars>>
    /\ UNCHANGED nonport_vars

\* Whether close() returns at `if _refcounts[self._name] > 0: return`,
\* given the decremented count.
StillReferencedNever(count) == FALSE

StillReferenced(count) == count > 0

\* `_refcounts[self._name] -= 1` and `if _refcounts[self._name] > 0: return`.
\* A missing key raises KeyError, which leaves the with block.
Close_Decr(t) ==
    /\ pc[t] = "close_decr"
    /\ IF th[t].port \notin DOMAIN refcounts
       THEN /\ class_lock' = 0
            /\ Return(t)
            /\ UNCHANGED <<refcounts, hdecs>>
       ELSE /\ refcounts' = [refcounts EXCEPT ![th[t].port] = @ - 1]
            /\ hdecs' = [hdecs EXCEPT ![th[t].h] = @ + 1]
            /\ IF StillReferenced(refcounts[th[t].port] - 1)
               THEN class_lock' = 0 /\ Return(t)
               ELSE Goto(t, "close_pop_serial") /\ UNCHANGED <<class_lock, th>>
    /\ UNCHANGED <<serials, locks, lock_held, conns, hstate, hname, hclosed, hconn,
                   asi_vars>>
    /\ UNCHANGED nonport_vars

\* `s = _serials.pop(self._name)`
Close_PopSerial(t) ==
    /\ pc[t] = "close_pop_serial"
    /\ th' = [th EXCEPT ![t].s = serials[th[t].port]]
    /\ serials' = Pop(serials, th[t].port)
    /\ Goto(t, "close_pop_ref")
    /\ UNCHANGED <<refcounts, locks, class_lock, lock_held, conns, handle_vars, asi_vars>>
    /\ UNCHANGED nonport_vars

\* `_refcounts.pop(self._name)`
Close_PopRef(t) ==
    /\ pc[t] = "close_pop_ref"
    /\ refcounts' = Pop(refcounts, th[t].port)
    /\ Goto(t, "close_pop_lock")
    /\ UNCHANGED <<serials, locks, class_lock, lock_held, conns, handle_vars, th, asi_vars>>
    /\ UNCHANGED nonport_vars

\* `_locks.pop(self._name)` and the end of the with block.
Close_PopLock(t) ==
    /\ pc[t] = "close_pop_lock"
    /\ locks' = Pop(locks, th[t].port)
    /\ class_lock' = 0
    /\ Goto(t, "close_sclose")
    /\ UNCHANGED <<serials, refcounts, lock_held, conns, handle_vars, th, asi_vars>>
    /\ UNCHANGED nonport_vars

\* `s.close()`, after the with block.
Close_SClose(t) ==
    /\ pc[t] = "close_sclose"
    /\ conns' = [conns EXCEPT ![th[t].s].open = FALSE, ![th[t].s].closes = @ + 1,
                              ![th[t].s].rx = <<>>]
    /\ Return(t)
    /\ UNCHANGED <<serials, refcounts, locks, class_lock, lock_held, handle_vars, asi_vars>>
    /\ UNCHANGED nonport_vars

(*------------- Port.write / read / readline / write_readline /-----------*)
(*------------- reset_input_buffer ----------------------------------------*)
IoOps == {"write", "read", "readline", "write_readline", "reset_input_buffer"}

\* Thread t calls an operation of the constructed Port h.
Io_Start(t, h, op) ==
    /\ pc[t] = "idle"
    /\ hstate[h] = "live"
    /\ th' = [th EXCEPT ![t] = [NoLocals EXCEPT !.h = h, !.port = hname[h], !.op = op]]
    /\ Goto(t, "io_lookup")
    /\ UNCHANGED <<registry_vars, handle_vars, asi_vars>>
    /\ UNCHANGED nonport_vars

\* `_locks[self._name]`: the lock object, or KeyError.
Io_Lookup(t) ==
    /\ pc[t] = "io_lookup"
    /\ IF th[t].port \in DOMAIN locks
       THEN /\ th' = [th EXCEPT ![t].lock = locks[th[t].port]]
            /\ Goto(t, "io_acquire")
       ELSE Return(t)
    /\ UNCHANGED <<registry_vars, handle_vars, asi_vars>>
    /\ UNCHANGED nonport_vars

\* What entering `with <lock>` waits for besides the lock itself.
AcquireNeedsClassLock == class_lock = 0

AcquireNeeds == TRUE

\* `with <lock>:` the lock is acquired.
Io_Acquire(t) ==
    /\ pc[t] = "io_acquire"
    /\ lock_held[th[t].lock] = 0
    /\ AcquireNeeds
    /\ lock_held' = [lock_held EXCEPT ![th[t].lock] = t]
    /\ Goto(t, "io_serial")
    /\ UNCHANGED <<serials, refcounts, locks, class_lock, conns, handle_vars, th, asi_vars>>
    /\ UNCHANGED nonport_vars

\* The lock held by t is released (the with block is left).
Unlock(t) == lock_held' = [lock_held EXCEPT ![th[t].lock] = 0]

\* `_serials[self._name]`: the connection the operation is then called on,
\* or KeyError.
Io_Serial(t) ==
    /\ pc[t] = "io_serial"
    /\ IF th[t].port \in DOMAIN serials
       THEN /\ th' = [th EXCEPT ![t].conn = serials[th[t].port]]
            /\ Goto(t, "io_exec")
            /\ UNCHANGED lock_held
       ELSE Unlock(t) /\ Return(t)
    /\ UNCHANGED <<serials, refcounts, locks, class_lock, conns, handle_vars, asi_vars>>
    /\ UNCHANGED nonport_vars

\* The operation was called on a connection that is closed: pyserial raises.
Io_Exec_Closed(t) ==
    /\ pc[t] = "io_exec"
    /\ ~conns[th[t].conn].open
    /\ Unlock(t)
    /\ Return(t)
    /\ UNCHANGED <<serials, refcounts, locks, class_lock, conns, handle_vars, asi_vars>>
    /\ UNCHANGED nonport_vars

\* The bytes written reach the device on the port: the ASI controller takes
\* the command line; other devices do not answer.
Transmit(t) ==
    ctl' = IF conns[th[t].conn].port = AsiPort THEN Append(ctl, t) ELSE ctl

\* write(data) completes.  Within _cmd the readline call follows.
Io_Exec_Write(t) ==
    /\ pc[t] = "io_exec"
    /\ th[t].op = "write"
    /\ conns[th[t].conn].open
    /\ Transmit(t)
    /\ Unlock(t)
    /\ IF th[t].cmd
       THEN /\ th' = [th EXCEPT ![t].op = "readline", ![t].lock = 0, ![t].conn = 0]
            /\ Goto(t, "io_lookup")
       ELSE Return(t)
    /\ UNCHANGED <<serials, refcounts, locks, class_lock, conns, handle_vars,
                   cmd_resp, ncmds, timeouts>>
    /\ UNCHANGED nonport_vars

\* The write of write_readline completes; the readline follows under the
\* same lock, after a second `_serials[self._name]`.
Io_Exec_WriteThenReadline(t) ==
    /\ pc[t] = "io_exec"
    /\ th[t].op = "write_readline"
    /\ conns[th[t].conn].open
    /\ Transmit(t)
    /\ th' = [th EXCEPT ![t].op = "readline", ![t].conn = 0]
    /\ Goto(t, "io_serial")
    /\ UNCHANGED <<registry_vars, handle_vars, cmd_resp, ncmds, timeouts>>
    /\ UNCHANGED nonport_vars

\* read(size) / readline() completes: with the next line of the input
\* buffer, or empty-handed after the serial timeout (0).
Io_Exec_Read(t) ==
    /\ pc[t] = "io_exec"
    /\ th[t].op \in {"read", "readline"}
    /\ conns[th[t].conn].open
    /\ LET rx == conns[th[t].conn].rx
           line == IF rx # <<>> THEN Head(rx) ELSE 0
       IN  /\ conns' = [conns EXCEPT ![th[t].conn].rx = IF rx # <<>> THEN Tail(rx) ELSE rx]
           /\ IF th[t].cmd
              THEN /\ cmd_resp' = [cmd_resp EXCEPT ![t] = line]
                   /\ timeouts' = (timeouts \/ line = 0)
              ELSE UNCHANGED <<cmd_resp, timeouts>>
    /\ Unlock(t)
    /\ Return(t)
    /\ UNCHANGED <<serials, refcounts, locks, class_lock, handle_vars, ctl, ncmds>>
    /\ UNCHANGED nonport_vars

\* reset_input_buffer() completes.
Io_Exec_Reset(t) ==
    /\ pc[t] = "io_exec"
    /\ th[t].op = "reset_input_buffer"
    /\ conns[th[t].conn].open
    /\ conns' = [conns EXCEPT ![th[t].conn].rx = <<>>]
    /\ Unlock(t)
    /\ Return(t)
    /\ UNCHANGED <<serials, refcounts, locks, class_lock, handle_vars, asi_vars>>
    /\ UNCHANGED nonport_vars

(*------------------- Stage._cmd / Focus._cmd (asi.py) -------------------*)
\* The device a thread drives: odd threads the Stage (Port 1), even threads
\* the Focus (Port 2).
DeviceOf(t) == IF t % 2 = 1 THEN 1 ELSE 2

\* Thread t calls _cmd on the device that owns Port h: it calls
\* self._port.write(cmd) and then self._port.readline().
Cmd_Start(t, h) ==
    /\ pc[t] = "idle"
    /\ h = DeviceOf(t)
    /\ hstate[h] = "live"
    /\ hname[h] = AsiPort
    /\ ncmds[t] < MaxCmds
    /\ ncmds' = [ncmds EXCEPT ![t] = @ + 1]
    /\ cmd_resp' = [cmd_resp EXCEPT ![t] = 0]
    /\ th' = [th EXCEPT ![t] = [NoLocals EXCEPT !.h = h, !.port = hname[h],
                                                !.op = "write", !.cmd = TRUE]]
    /\ Goto(t, "io_lookup")
    /\ UNCHANGED <<registry_vars, handle_vars, ctl, timeouts>>
    /\ UNCHANGED nonport_vars

\* The ASI controller answers the oldest command it has received: the
\* response line arrives in the input buffer of the open connection.
Controller ==
    /\ ctl # <<>>
    /\ conns' = [c \in 1..Len(conns) |->
                    IF conns[c].port = AsiPort /\ conns[c].open
                    THEN [conns[c] EXCEPT !.rx = Append(@, Head(ctl))]
                    ELSE conns[c]]
    /\ ctl' = Tail(ctl)
    /\ UNCHANGED <<serials, refcounts, locks, class_lock, lock_held, handle_vars,
                   thread_vars, cmd_resp, ncmds, timeouts>>
    /\ UNCHANGED nonport_vars

PortNext ==
    \/ \E t \in Threads, h \in Handles, n \in Ports : PortInit_Start(t, h, n)
    \/ \E t \in Threads : PortInit_Lock(t)
    \/ \E t \in Threads : PortInit_Open(t)
    \/ \E t \in Threads : PortInit_Ref0(t)
    \/ \E t \in Threads : PortInit_MkLock(t)
    \/ \E t \in Threads : PortInit_Incr(t)
    \/ \E t \in Threads, h \in Handles : Close_Start(t, h)
    \/ \E t \in Threads : Close_Lock(t)
    \/ \E t \in Threads : Close_Check(t)
    \/ \E t \in Threads : Close_Decr(t)
    \/ \E t \in Threads : Close_PopSerial(t)
    \/ \E t \in Threads : Close_PopRef(t)
    \/ \E t \in Threads : Close_PopLock(t)
    \/ \E t \in Threads : Close_SClose(t)
    \/ \E t \in Threads, h \in Handles, op \in IoOps : Io_Start(t, h, op)
    \/ \E t \in Threads : Io_Lookup(t)
    \/ \E t \in Threads : Io_Acquire(t)
    \/ \E t \in Threads : Io_Serial(t)
    \/ \E t \in Threads : Io_Exec_Closed(t)
    \/ \E t \in Threads : Io_Exec_Write(t)
    \/ \E t \in Threads : Io_Exec_WriteThenReadline(t)
    \/ \E t \in Threads : Io_Exec_Read(t)
    \/ \E t \in Threads : Io_Exec_Reset(t)

(***************************************************************************)
(* Codec exchange: a payload is written and the written bytes read back.   *)
(***************************************************************************)
NoRes == [status |-> "none", out |-> <<>>]

CodecInit ==
    /\ data \in Payloads
    /\ wire = <<>>
    /\ res = NoRes
    /\ cpc = "idle"
    /\ seen = <<>>
    /\ PortInit
    /\ FlowIdle
    /\ DiscIdle
    /\ ValveIdle
    /\ ChipIdle
    /\ SipIdle
    /\ RunIdle
    /\ ControlIdle
    /\ TileIdle

\* PacketStream.write(data): the frame is appended to the socket stream.
Write ==
    /\ cpc = "idle"
    /\ wire' = wire \o PacketStream_write(data)
    /\ cpc' = "written"
    /\ UNCHANGED <<data, res, seen>>
    /\ UNCHANGED noncodec_vars

\* PacketStream.read(): decodes from the socket stream.
Read ==
    /\ cpc = "written"
    /\ LET r == PacketStream_read(wire)
       IN  /\ res' = [status |-> r.status, out |-> r.out]
           /\ wire' = r.rest
    /\ seen' = wire
    /\ cpc' = "read"
    /\ UNCHANGED data
    /\ UNCHANGED noncodec_vars

CodecNext == Write \/ Read

SpecCodec == CodecInit /\ [][CodecNext]_vars

(***************************************************************************)
(* PacketStream.read on arbitrary bytes: whatever a device, or noise on    *)
(* the line, has put into the socket's input buffer.                       *)
(***************************************************************************)
StreamBytes == {0, 1, 2, 3}

RECURSIVE StreamsOf(_)
StreamsOf(k) ==
    IF k = 0 THEN { <<>> }
    ELSE LET prev == StreamsOf(k - 1)
         IN  prev \cup { Append(p, b) : p \in { q \in prev : Len(q) = k - 1 },
                                         b \in StreamBytes }

Streams == StreamsOf(MaxStream)

\* The bytes have arrived on the socket; nothing was read yet.
StreamInit ==
    /\ data = <<>>
    /\ wire \in Streams
    /\ res = NoRes
    /\ cpc = "written"
    /\ seen = <<>>
    /\ PortInit
    /\ FlowIdle
    /\ DiscIdle
    /\ ValveIdle
    /\ ChipIdle
    /\ SipIdle
    /\ RunIdle
    /\ ControlIdle
    /\ TileIdle

\* A further PacketStream.read() on what the earlier reads left.
ReadAgain ==
    /\ cpc = "read"
    /\ wire # <<>>
    /\ LET r == PacketStream_read(wire)
       IN  /\ res' = [status |-> r.status, out |-> r.out]
           /\ wire' = r.rest
    /\ seen' = wire
    /\ UNCHANGED <<data, cpc>>
    /\ UNCHANGED noncodec_vars

StreamNext == Read \/ ReadAgain

SpecStream == StreamInit /\ [][StreamNext]_vars

(***************************************************************************)
(* Threads constructing, using and closing Port objects.                   *)
(***************************************************************************)
CodecIdle ==
    /\ data = <<>>
    /\ wire = <<>>
    /\ res = NoRes
    /\ cpc = "idle"
    /\ seen = <<>>

SpecPortInit == PortInit /\ CodecIdle /\ FlowIdle /\ DiscIdle /\ ValveIdle /\ ChipIdle /\ SipIdle /\ RunIdle /\ ControlIdle /\ TileIdle

SpecPort == SpecPortInit /\ [][PortNext]_vars

(***************************************************************************)
(* The ASI Stage and Focus of one controller: both select the same VID/PID *)
(* and so hold a Port of the same name.  Threads call _cmd on either.      *)
(***************************************************************************)
\* The state after Stage(...) (Port 1) and Focus(...) (Port 2) were made.
AsiInit ==
    /\ serials = [k \in {AsiPort} |-> 1]
    /\ refcounts = [k \in {AsiPort} |-> 2]
    /\ locks = [k \in {AsiPort} |-> 1]
    /\ class_lock = 0
    /\ lock_held = <<0>>
    /\ conns = <<NewConn(AsiPort)>>
    /\ hstate = [h \in Handles |-> IF h <= 2 THEN "live" ELSE "none"]
    /\ hname = [h \in Handles |-> IF h <= 2 THEN AsiPort ELSE ""]
    /\ hclosed = [h \in Handles |-> FALSE]
    /\ hconn = [h \in Handles |-> IF h <= 2 THEN 1 ELSE 0]
    /\ hdecs = [h \in Handles |-> 0]
    /\ ThreadsInit
    /\ AsiIdle
    /\ CodecIdle
    /\ FlowIdle
    /\ DiscIdle
    /\ ValveIdle
    /\ ChipIdle
    /\ SipIdle
    /\ RunIdle
    /\ ControlIdle
    /\ TileIdle

AsiNext ==
    \/ \E t \in Threads, h \in Handles : Cmd_Start(t, h)
    \/ \E t \in Threads : Io_Lookup(t)
    \/ \E t \in Threads : Io_Acquire(t)
    \/ \E t \in Threads : Io_Serial(t)
    \/ \E t \in Threads : Io_Exec_Write(t)
    \/ \E t \in Threads : Io_Exec_Read(t)
    \/ Controller

SpecAsi == AsiInit /\ [][AsiNext]_vars

(***************************************************************************)
(* FlowController (fluidic.py): every operation packs a request, writes it *)
(* with PacketStream.write and calls _read_packet with the request's       *)
(* opcode as assert_code.                                                  *)
(***************************************************************************)
\* A double is kept as its eight big-endian IEEE-754 bytes: 12.5 and 0.0.
Rpms == { <<64, 41, 0, 0, 0, 0, 0, 0>>, <<0, 0, 0, 0, 0, 0, 0, 0>> }

\* Bytes a struct format character takes: 'd' eight, '?' and 'B' one.
FieldSize(c) == IF c = "d" THEN 8 ELSE 1

RECURSIVE StructSize(_)
StructSize(fmt) ==
    IF fmt = <<>> THEN 0 ELSE FieldSize(Head(fmt)) + StructSize(Tail(fmt))

\* The fields struct.unpack reads from p, which has StructSize(fmt) bytes.
RECURSIVE UnpackFields(_, _)
UnpackFields(fmt, p) ==
    IF fmt = <<>> THEN <<>>
    ELSE LET n == FieldSize(Head(fmt))
             raw == SubSeq(p, 1, n)
             v == IF Head(fmt) = "?" THEN <<raw[1] # 0>> ELSE raw
         IN  <<v>> \o UnpackFields(Tail(fmt), Drop(p, n))

\* What an operation ends with: a returned value (kind "value", or "none"
\* for None) or the exception raised.
Outcome(kind, value) == [kind |-> kind, value |-> value]

\* struct.unpack(fmt, payload): struct.error unless the sizes agree.
Unpack(fmt, payload) ==
    IF Len(payload) # StructSize(fmt) THEN Outcome("struct_error", <<>>)
    ELSE Outcome("value", UnpackFields(fmt, payload))

\* The `match code` of _read_packet.
Decode(code, payload) ==
    IF code = FLOW_SENSOR_INFO THEN Unpack(<<"?", "?", "?", "d", "d">>, payload)
    ELSE IF code = GET_PUMP_RPM THEN Unpack(<<"d">>, payload)
    ELSE IF code = SET_PUMP_RPM THEN Outcome("none", <<>>)
    ELSE Outcome("unknown", <<>>)

\* _read_packet with the opcode compared to assert_code before it is
\* compared to FAIL.
FlowController_read_packet_MismatchFirst(r, assert_code) ==
    IF r.status # "ok" THEN Outcome(r.status, <<>>)
    ELSE IF Len(r.out) = 0 THEN Outcome("struct_error", <<>>)
    ELSE LET code == r.out[1]
         IN  IF assert_code # None /\ code # assert_code THEN Outcome("unexpected", <<>>)
             ELSE IF code = FAIL THEN Outcome("device_failure", <<>>)
             ELSE Decode(code, Drop(r.out, 1))

\* _read_packet(assert_code) given the result r of self._socket.read(): an
\* exception of read propagates; struct.unpack(">B", response[:1]) raises
\* struct.error on an empty response.
FlowController_read_packet(r, assert_code) ==
    IF r.status # "ok" THEN Outcome(r.status, <<>>)
    ELSE IF Len(r.out) = 0 THEN Outcome("struct_error", <<>>)
    ELSE LET code == r.out[1]
         IN  IF code = FAIL THEN Outcome("device_failure", <<>>)
             ELSE IF assert_code # None /\ code # assert_code
                  THEN Outcome("unexpected", <<>>)
             ELSE Decode(code, Drop(r.out, 1))

\* `self._socket.write(request)` of an operation with opcode `code`; the
\* call of _read_packet(assert_code=code) follows.
WriteRequest(code, request) ==
    /\ fpc = "idle"
    /\ nops < MaxOps
    /\ nops' = nops + 1
    /\ fcode' = code
    /\ tx' = tx \o PacketStream_write(request)
    /\ fhist' = Append(fhist, [code |-> code, sent |-> PacketStream_write(request),
                               done |-> FALSE, read |-> FALSE, resp |-> <<>>,
                               owners |-> {}, outcome |-> Outcome("pending", <<>>)])
    /\ fpc' = "wrote"
    /\ UNCHANGED <<fline, fown, farrived, dev_n>>
    /\ UNCHANGED nonflow_vars

\* The rpm getter: struct.pack(">B", Code.GET_PUMP_RPM).
Rpm_get == WriteRequest(GET_PUMP_RPM, <<GET_PUMP_RPM>>)

\* The rpm setter: struct.pack(">Bd", Code.SET_PUMP_RPM, rpm).
Rpm_set(rpm) == WriteRequest(SET_PUMP_RPM, <<SET_PUMP_RPM>> \o rpm)

\* sensor_info(): struct.pack(">B", Code.FLOW_SENSOR_INFO).
Sensor_info == WriteRequest(FLOW_SENSOR_INFO, <<FLOW_SENSOR_INFO>>)

\* The requests whose responses the bytes s answer.
Owners(s) == { s[i] : i \in 1..Len(s) }

\* _read_packet(assert_code=fcode): PacketStream.read decodes from the bytes
\* that have arrived (those consumed leave the line), the response is
\* classified, and the operation returns or raises.
ReadPacket ==
    /\ fpc = "wrote"
    /\ LET r == PacketStream_read(SubSeq(fline, 1, farrived))
           consumed == farrived - Len(r.rest)
       IN  /\ fline' = Drop(fline, consumed)
           /\ fown' = Drop(fown, consumed)
           /\ farrived' = Len(r.rest)
           /\ fhist' = [fhist EXCEPT ![nops] =
                          [@ EXCEPT !.done = TRUE,
                                    !.read = (r.status = "ok"),
                                    !.resp = r.out,
                                    !.owners = Owners(SubSeq(fown, 1, consumed)),
                                    !.outcome = FlowController_read_packet(r, fcode)]]
    /\ fpc' = "idle"
    /\ fcode' = None
    /\ UNCHANGED <<nops, tx, dev_n>>
    /\ UNCHANGED nonflow_vars

(*------------------------ the device on the line -------------------------*)
\* The payload the firmware sends back with opcode c.
GoodPayload(c) ==
    IF c = GET_PUMP_RPM THEN <<64, 41, 0, 0, 0, 0, 0, 0>>
    ELSE IF c = FLOW_SENSOR_INFO
         THEN <<1, 0, 1>> \o <<63, 240, 0, 0, 0, 0, 0, 0>> \o <<64, 0, 0, 0, 0, 0, 0, 0>>
    ELSE <<>>

\* A frame in which line noise turned the first data byte into 0x00.
Garble(f) == [f EXCEPT ![2] = 0]

\* The frames the device may answer a request of opcode c with: the
\* response the protocol defines, FAIL without and with payload, an opcode
\* that is none of Code's, the opcode with a payload of the wrong size, a
\* well-formed response to another request, and a corrupted frame.
DeviceFrames(c) ==
    { PacketStream_write(<<c>> \o GoodPayload(c)),
      PacketStream_write(<<FAIL>>),
      PacketStream_write(<<FAIL>> \o GoodPayload(GET_PUMP_RPM)),
      PacketStream_write(<<5>>),
      PacketStream_write(<<c, 1>>),
      PacketStream_write(<<GET_PUMP_RPM>> \o GoodPayload(GET_PUMP_RPM)),
      Garble(PacketStream_write(<<GET_PUMP_RPM>> \o GoodPayload(GET_PUMP_RPM))) }

\* The device takes the oldest request frame and sends one frame back.
Device ==
    /\ tx # <<>>
    /\ LET req == PacketStream_read(tx)
       IN  /\ tx' = req.rest
           /\ \E f \in DeviceFrames(req.out[1]) :
                 /\ fline' = fline \o f
                 /\ fown' = fown \o [i \in 1..Len(f) |-> dev_n + 1]
    /\ dev_n' = dev_n + 1
    /\ UNCHANGED <<fpc, fcode, nops, farrived, fhist>>
    /\ UNCHANGED nonflow_vars

\* k more bytes of what the device has sent reach the input buffer.
Arrive(k) ==
    /\ k >= 1
    /\ farrived + k <= Len(fline)
    /\ farrived' = farrived + k
    /\ UNCHANGED <<fpc, fcode, nops, tx, fline, fown, dev_n, fhist>>
    /\ UNCHANGED nonflow_vars

FlowInit == FlowIdle /\ PortInit /\ CodecIdle /\ DiscIdle /\ ValveIdle /\ ChipIdle /\ SipIdle /\ RunIdle /\ ControlIdle /\ TileIdle

FlowNext ==
    \/ Rpm_get
    \/ \E rpm \in Rpms : Rpm_set(rpm)
    \/ Sensor_info
    \/ ReadPacket
    \/ Device
    \/ \E k \in {1, Len(fline) - farrived} : Arrive(k)

SpecFlow == FlowInit /\ [][FlowNext]_vars

(***************************************************************************)
(* PacketStream.__init__ (packet.py lines 9-28): the ports with the        *)
(* device's VID/PID are opened one after the other and asked for their     *)
(* device id.                                                              *)
(***************************************************************************)
DeviceIds == {1, 2}

\* What a device puts on the line after the request: [kind, id, bytes].
\* "id": the framed payload [0x00, id]; "single": the framed payload [0x00];
\* "long": [0x00, id, 0x00]; "other": [0x01, id]; "silent": nothing;
\* "cut": a frame whose end does not arrive; "corrupt": a frame with a 0x00
\* among its data bytes.
Answer(kind, id) ==
    [kind |-> kind, id |-> id,
     bytes |-> IF kind = "id" THEN PacketStream_write(<<0, id>>)
               ELSE IF kind = "single" THEN PacketStream_write(<<0>>)
               ELSE IF kind = "long" THEN PacketStream_write(<<0, id, 0>>)
               ELSE IF kind = "other" THEN PacketStream_write(<<1, id>>)
               ELSE IF kind = "cut" THEN <<1, 2>>
               ELSE IF kind = "corrupt" THEN <<3, 0, id, 0>>
               ELSE <<>>]

Answers ==
    { Answer("id", d) : d \in DeviceIds }
    \cup { Answer(k, 1) : k \in {"single", "long", "other", "silent", "cut", "corrupt"} }

\* A port of comports(): whether its vid and pid are 0x303A and 0x1001, the
\* bytes waiting in its input buffer when it is opened, and what the device
\* on it answers.
CandidatePorts ==
    { [vidpid |-> FALSE, stale |-> <<>>, answer |-> Answer("silent", 1)] }
    \cup { [vidpid |-> TRUE, stale |-> st, answer |-> a] :
             st \in { <<>>, PacketStream_write(<<0, 1>>) }, a \in Answers }

RECURSIVE PortLists(_)
PortLists(k) ==
    IF k = 0 THEN { <<>> }
    ELSE LET prev == PortLists(k - 1)
         IN  prev \cup { Append(l, c) : l \in { q \in prev : Len(q) = k - 1 },
                                         c \in CandidatePorts }

\* PacketStream(device_id) is called.
DiscInit ==
    /\ dpc = "scan"
    /\ dports \in PortLists(MaxPorts)
    /\ did \in DeviceIds
    /\ di = 0
    /\ dopen = {}
    /\ dsock = 0
    /\ dfound = FALSE
    /\ dres = "none"
    /\ dsent = [i \in 1..Len(dports) |-> <<>>]
    /\ dlog = <<>>
    /\ PortInit
    /\ FlowIdle
    /\ CodecIdle
    /\ ValveIdle
    /\ ChipIdle
    /\ SipIdle
    /\ RunIdle
    /\ ControlIdle
    /\ TileIdle

\* `if port.vid == 0x303A and port.pid == 0x1001` is false: the next port.
Scan_Skip ==
    /\ dpc = "scan"
    /\ di < Len(dports)
    /\ ~dports[di + 1].vidpid
    /\ di' = di + 1
    /\ UNCHANGED <<dpc, dports, did, dopen, dsock, dfound, dres, dsent, dlog>>
    /\ UNCHANGED nondisc_vars

\* `self._socket = serial.Serial(port.device, ...)`
Scan_Open ==
    /\ dpc = "scan"
    /\ di < Len(dports)
    /\ dports[di + 1].vidpid
    /\ dsock' = di + 1
    /\ dopen' = dopen \cup {di + 1}
    /\ dlog' = Append(dlog, di + 1)
    /\ dpc' = "opened"
    /\ UNCHANGED <<dports, did, di, dfound, dres, dsent>>
    /\ UNCHANGED nondisc_vars

\* self._socket.reset_input_buffer()
ResetInputBuffer(buf) == <<>>

\* The test of the handshake result without its length.
MatchesAnyLength(result, device_id) ==
    Len(result) >= 2 /\ result[1] = 0 /\ result[2] = device_id

\* `len(result) == 2 and result[0] == 0 and result[1] == device_id`
Matches(result, device_id) ==
    Len(result) = 2 /\ result[1] = 0 /\ result[2] = device_id

\* The try block: the input buffer is reset, [0x00] is written, one frame
\* is read (the device's answer has arrived, or whatever part of it does
\* before the timeout) and compared; an exception of read is passed over.
Scan_Handshake ==
    /\ dpc = "opened"
    /\ LET port == dports[dsock]
           r == PacketStream_read(ResetInputBuffer(port.stale) \o port.answer.bytes)
       IN  IF r.status = "ok" /\ Matches(r.out, did)
           THEN dfound' = TRUE /\ dpc' = "after_loop"
           ELSE dfound' = dfound /\ dpc' = "close"
    /\ dsent' = [dsent EXCEPT ![dsock] = @ \o PacketStream_write(<<0>>)]
    /\ UNCHANGED <<dports, did, di, dopen, dsock, dres, dlog>>
    /\ UNCHANGED nondisc_vars

\* `self._socket.close()` at the end of the loop body.
Scan_Close ==
    /\ dpc = "close"
    /\ dopen' = dopen \ {dsock}
    /\ di' = di + 1
    /\ dpc' = "scan"
    /\ UNCHANGED <<dports, did, dsock, dfound, dres, dsent, dlog>>
    /\ UNCHANGED nondisc_vars

\* The for loop is exhausted.
Scan_End ==
    /\ dpc = "scan"
    /\ di = Len(dports)
    /\ dpc' = "after_loop"
    /\ UNCHANGED <<dports, did, di, dopen, dsock, dfound, dres, dsent, dlog>>
    /\ UNCHANGED nondisc_vars

\* `if not device_found: raise ConnectionError(...)`, else the finalizer is
\* registered and __init__ returns.
Scan_Finish ==
    /\ dpc = "after_loop"
    /\ dres' = IF dfound THEN "ok" ELSE "ConnectionError"
    /\ dpc' = "done"
    /\ UNCHANGED <<dports, did, di, dopen, dsock, dfound, dsent, dlog>>
    /\ UNCHANGED nondisc_vars

DiscNext ==
    \/ Scan_Skip
    \/ Scan_Open
    \/ Scan_Handshake
    \/ Scan_Close
    \/ Scan_End
    \/ Scan_Finish

SpecDisc == DiscInit /\ [][DiscNext]_vars

(***************************************************************************)
(* The valve bank of devices/microfluidic.py: ValveDriver over the coils   *)
(* of a Modbus device, Valves groups, TreeValves and the Chip snapshot.    *)
(***************************************************************************)
\* The offset ValveDriver.__getitem__ adds to a valve index.
ReadOffset == 512
\* The largest number of valve pairs of a TreeValves.
MaxPairs == 2
\* ValveDriver._num_valves: room for the largest tree.
NumValves == 2 * MaxPairs

\* The coil ValveDriver.__getitem__ reads for valve idx.
ReadAddr(idx) == idx + ReadOffset
\* The coil ValveDriver.__setitem__ writes for valve idx.
WriteAddr(idx) == idx
ValveIndices == 0..(NumValves - 1)
\* The coils of the device that the driver can address.
CoilAddrs == { ReadAddr(i) : i \in ValveIndices } \cup { WriteAddr(i) : i \in ValveIndices }

\* ValveDriver.__getitem__ on the coil table c.
ValveDriver_getitem(c, idx) ==
    IF idx < 0 \/ idx >= NumValves THEN "IndexError"
    ELSE IF c[ReadAddr(idx)] THEN "open" ELSE "closed"

\* ValveDriver.__setitem__ on the coil table c (idx in range).
ValveDriver_setitem(c, idx, state) ==
    [c EXCEPT ![WriteAddr(idx)] = (state = "open")]

\* A Python dict as the list of its items in insertion order.
DictHas(d, k) == \E i \in 1..Len(d) : d[i][1] = k
DictGet(d, k) == d[CHOOSE i \in 1..Len(d) : d[i][1] = k][2]
DictSet(d, k, v) ==
    IF DictHas(d, k)
    THEN [i \in 1..Len(d) |-> IF d[i][1] = k THEN <<k, v>> ELSE d[i]]
    ELSE Append(d, <<k, v>>)

RECURSIVE Pow2(_)
Pow2(n) == IF n = 0 THEN 1 ELSE 2 * Pow2(n - 1)

\* f"{i:0{w}b}": the binary digits of i, padded with zeros to width w.
Digit(b) == IF b = 0 THEN "0" ELSE "1"
RECURSIVE BinDigits(_)
BinDigits(i) ==
    IF i < 2 THEN <<Digit(i)>>
    ELSE Append(BinDigits(i \div 2), Digit(i % 2))
RECURSIVE ZeroPad(_, _)
ZeroPad(s, w) == IF Len(s) >= w THEN s ELSE ZeroPad(<<"0">> \o s, w)
Format(i, w) == ZeroPad(BinDigits(i), w)

\* {s: f"{i:0{w}b}" for i, s in enumerate(items)}, after the first k items.
RECURSIVE Enumerated(_, _, _)
Enumerated(items, k, w) ==
    IF k = 0 THEN <<>>
    ELSE DictSet(Enumerated(items, k - 1, w), items[k], Format(k - 1, w))

\* The loop "for i in range(2 ** len(zeros)): if i not in processed: ...",
\* after k iterations.
RECURSIVE WithDefaults(_, _, _)
WithDefaults(d, k, w) ==
    IF k = 0 THEN d
    ELSE LET p == WithDefaults(d, k - 1, w)
         IN  IF DictHas(p, IntLabel(k - 1)) THEN p
             ELSE Append(p, <<IntLabel(k - 1), Format(k - 1, w)>>)

\* {value: key for key, value in d.items()}, after the first k items.
RECURSIVE Reversed(_, _)
Reversed(d, k) ==
    IF k = 0 THEN <<>>
    ELSE DictSet(Reversed(d, k - 1), d[k][2], d[k][1])

PatternChars == {"0", "1", "o", "x"}

\* TreeValves.__init__; valid is FALSE where it raises ValueError.
TreeValves_init(zeros, ones, states) ==
    LET w == Len(zeros)
        items == IF states.kind = "none"
                 THEN [i \in 1..Pow2(w) |-> IntLabel(i - 1)]
                 ELSE states.items
        base == IF states.kind # "dict"
                THEN Enumerated(items, Len(items), w)
                ELSE states.items
        processed == WithDefaults(base, Pow2(w), w)
    IN  [zeros |-> zeros,
         ones |-> ones,
         all |-> zeros \o ones,
         states |-> states,
         labels_to_states |-> processed,
         states_to_labels |-> Reversed(processed, Len(processed)),
         valid |-> \A i \in 1..Len(processed) :
                      /\ Len(processed[i][2]) = w
                      /\ \A j \in 1..Len(processed[i][2]) :
                            processed[i][2][j] \in PatternChars]

\* The character the getter appends for a pair, the zeros valve mutated to
\* read as "1" and the ones valve as "0".
PairCharSwapped(zero_open, one_open) ==
    IF zero_open /\ one_open THEN "o"
    ELSE IF zero_open THEN "1"
    ELSE IF one_open THEN "0"
    ELSE "x"

\* The character the getter of TreeValves.state appends for a pair.
PairChar(zero_open, one_open) ==
    IF zero_open /\ one_open THEN "o"
    ELSE IF zero_open THEN "0"
    ELSE IF one_open THEN "1"
    ELSE "x"

\* The getter of TreeValves.state on the coil table c.
TreeValves_state(c, t) ==
    LET zeros_open == [i \in 1..Len(t.zeros) |-> ValveDriver_getitem(c, t.zeros[i]) = "open"]
        ones_open == [i \in 1..Len(t.ones) |-> ValveDriver_getitem(c, t.ones[i]) = "open"]
        all_open == [i \in 1..Len(t.all) |-> ValveDriver_getitem(c, t.all[i]) = "open"]
    IN  IF \A i \in 1..Len(all_open) : all_open[i] THEN OpenLabel
        ELSE IF ~(\E i \in 1..Len(all_open) : all_open[i]) THEN ClosedLabel
        ELSE LET state_str == [i \in 1..Len(zeros_open) |->
                                  PairChar(zeros_open[i], ones_open[i])]
             IN  IF DictHas(t.states_to_labels, state_str)
                 THEN DictGet(t.states_to_labels, state_str)
                 ELSE InvalidLabel

\* "for v in self._all: self._driver[v] = state", as the list of writes.
Fill(list, state) == [i \in 1..Len(list) |-> <<list[i], state>>]

\* The writes of "for i, c in enumerate(new_state)", for the first k pairs.
RECURSIVE PatternWrites(_, _, _)
PatternWrites(t, new_state, k) ==
    IF k = 0 THEN <<>>
    ELSE PatternWrites(t, new_state, k - 1) \o
         (IF new_state[k] = "o"
          THEN << <<t.zeros[k], "open">>, <<t.ones[k], "open">> >>
          ELSE IF new_state[k] = "1" THEN << <<t.ones[k], "open">> >>
          ELSE IF new_state[k] = "0" THEN << <<t.zeros[k], "open">> >>
          ELSE <<>>)

\* The setter mutated to go pair by pair: close the pair, then open what the
\* pattern opens of it.
RECURSIVE PairwiseWrites(_, _, _)
PairwiseWrites(t, new_state, k) ==
    IF k = 0 THEN <<>>
    ELSE PairwiseWrites(t, new_state, k - 1) \o
         << <<t.zeros[k], "closed">>, <<t.ones[k], "closed">> >> \o
         (IF new_state[k] = "o"
          THEN << <<t.zeros[k], "open">>, <<t.ones[k], "open">> >>
          ELSE IF new_state[k] = "1" THEN << <<t.ones[k], "open">> >>
          ELSE IF new_state[k] = "0" THEN << <<t.zeros[k], "open">> >>
          ELSE <<>>)

WritePlanPairwise(t, label) ==
    IF label = OpenLabel THEN Fill(t.all, "open")
    ELSE IF label = ClosedLabel THEN Fill(t.all, "closed")
    ELSE LET new_state == DictGet(t.labels_to_states, label)
         IN  PairwiseWrites(t, new_state, Len(new_state))

\* The driver writes of the setter of TreeValves.state, in order.
WritePlan(t, label) ==
    IF label = OpenLabel THEN Fill(t.all, "open")
    ELSE IF label = ClosedLabel THEN Fill(t.all, "closed")
    ELSE LET new_state == DictGet(t.labels_to_states, label)
         IN  Fill(t.all, "closed") \o PatternWrites(t, new_state, Len(new_state))

\* Valves.__eq__ mutated: equal to "open" as soon as one member is open.
Valves_eq_AnyOpen(c, valves, other) ==
    LET is_open == [i \in 1..Len(valves) |-> ValveDriver_getitem(c, valves[i]) = "open"]
    IN  IF other = "open" THEN \E i \in 1..Len(is_open) : is_open[i]
        ELSE IF other = "closed" THEN ~(\E i \in 1..Len(is_open) : is_open[i])
        ELSE FALSE

\* Valves.__eq__ on the coil table c.
Valves_eq(c, valves, other) ==
    LET is_open == [i \in 1..Len(valves) |-> ValveDriver_getitem(c, valves[i]) = "open"]
    IN  IF other = "open" THEN \A i \in 1..Len(is_open) : is_open[i]
        ELSE IF other = "closed" THEN ~(\E i \in 1..Len(is_open) : is_open[i])
        ELSE FALSE

\* The entry of Chip.valves for a Valves group.
Chip_valves_entry(c, valves) ==
    IF Valves_eq(c, valves, "closed") THEN ClosedLabel ELSE OpenLabel

\* The label tables a configuration can give for w pairs: none, an empty
\* dict (what Chip passes when the mapping names no label), a label for a
\* binary pattern, a label for a wildcard pattern next to a default label
\* bound to another pattern, a list of labels, and a table with a pattern
\* outside the alphabet (rejected by __init__).
LabelTables(w) ==
    { [kind |-> "none", items |-> <<>>],
      [kind |-> "dict", items |-> <<>>],
      [kind |-> "dict", items |-> << <<StrLabel("A"), Format(0, w)>> >>],
      [kind |-> "dict",
       items |-> << <<StrLabel("A"), [i \in 1..w |-> IF i = 1 THEN "o" ELSE "0"]>>,
                    <<IntLabel(1), Format(0, w)>> >>],
      [kind |-> "list", items |-> <<StrLabel("A"), StrLabel("B")>>],
      [kind |-> "dict", items |-> << <<StrLabel("A"), [i \in 1..w |-> "2"]>> >>] }

\* The TreeValves that construction accepts, on w = 1..MaxPairs pairs.
Trees ==
    { t \in UNION { { TreeValves_init([i \in 1..w |-> i - 1],
                                       [i \in 1..w |-> w + i - 1], s) :
                          s \in LabelTables(w) } : w \in 1..MaxPairs } :
         t.valid }

\* The member lists of a Valves group: empty, one valve, two valves.
Groups == { <<>>, <<0>>, <<0, NumValves - 1>> }

\* The labels a caller sets: the aliases, the default labels, the labels of
\* the tables and one that no table has.
SetLabels ==
    {OpenLabel, ClosedLabel, StrLabel("A"), StrLabel("B"), StrLabel("Z")}
        \cup { IntLabel(i) : i \in 0..(Pow2(MaxPairs) - 1) }

Calling == vcall.plan # <<>>
TreeOpen(c, t) == { i \in 1..Len(t.all) : c[WriteAddr(t.all[i])] }

\* A TreeValves over a ValveDriver was constructed; the coils are in any
\* state.
TreeInit ==
    /\ coils \in [CoilAddrs -> BOOLEAN]
    /\ vtree \in Trees
    /\ vgrp = <<>>
    /\ vcall = NoCall
    /\ vobs = NoObs
    /\ PortInit
    /\ CodecIdle
    /\ FlowIdle
    /\ DiscIdle
    /\ ChipIdle
    /\ SipIdle
    /\ RunIdle
    /\ ControlIdle
    /\ TileIdle

\* The coil table after the writes of plan, in order.
RECURSIVE ApplyWrites(_, _)
ApplyWrites(c, plan) ==
    IF plan = <<>> THEN c
    ELSE ApplyWrites(ValveDriver_setitem(c, Head(plan)[1], Head(plan)[2]), Tail(plan))

\* The setter mutated to close every valve before it resolves the label.
TreeValves_state_set_CloseFirst(label) ==
    /\ ~Calling
    /\ IF label \notin {OpenLabel, ClosedLabel} /\ ~DictHas(vtree.labels_to_states, label)
       THEN /\ vobs' = [NoObs EXCEPT !.op = "set", !.result = StrLabel("KeyError")]
            /\ coils' = ApplyWrites(coils, WritePlan(vtree, ClosedLabel))
            /\ UNCHANGED vcall
       ELSE /\ vcall' = [label |-> label,
                         plan |-> WritePlan(vtree, label),
                         prev |-> { vtree.all[i] : i \in TreeOpen(coils, vtree) },
                         log |-> <<>>]
            /\ vobs' = NoObs
            /\ UNCHANGED coils
    /\ UNCHANGED <<vtree, vgrp>>
    /\ UNCHANGED nonvalve_vars

\* The setter of TreeValves.state is called with label: the label is
\* resolved (KeyError when no table has it) before the first write.
TreeValves_state_set(label) ==
    /\ ~Calling
    /\ IF label \notin {OpenLabel, ClosedLabel} /\ ~DictHas(vtree.labels_to_states, label)
       THEN /\ vobs' = [NoObs EXCEPT !.op = "set", !.result = StrLabel("KeyError")]
            /\ UNCHANGED vcall
       ELSE /\ vcall' = [label |-> label,
                         plan |-> WritePlan(vtree, label),
                         prev |-> { vtree.all[i] : i \in TreeOpen(coils, vtree) },
                         log |-> <<>>]
            /\ vobs' = NoObs
    /\ UNCHANGED <<coils, vtree, vgrp>>
    /\ UNCHANGED nonvalve_vars

\* The next "self._driver[v] = ..." of the setter under way.
TreeValves_state_write ==
    /\ Calling
    /\ LET w == Head(vcall.plan)
       IN  /\ coils' = ValveDriver_setitem(coils, w[1], w[2])
           /\ vcall' = [vcall EXCEPT !.plan = Tail(@), !.log = Append(@, w)]
    /\ vobs' = NoObs
    /\ UNCHANGED <<vtree, vgrp>>
    /\ UNCHANGED nonvalve_vars

\* The getter of TreeValves.state (Chip.__getattr__ of a tree path).
TreeValves_state_get ==
    /\ ~Calling
    /\ vobs' = [NoObs EXCEPT !.op = "state", !.result = TreeValves_state(coils, vtree)]
    /\ UNCHANGED <<coils, vtree, vgrp, vcall>>
    /\ UNCHANGED nonvalve_vars

TreeNext ==
    \/ \E label \in SetLabels : TreeValves_state_set(label)
    \/ TreeValves_state_write
    \/ TreeValves_state_get

SpecTree == TreeInit /\ [][TreeNext]_vars

(***************************************************************************)
(* One thread sets TreeValves.state while another polls it (the GUI        *)
(* router, through Chip.valves).  Neither TreeValves nor ValveDriver       *)
(* holds a lock, so the poll runs between any two driver writes of the     *)
(* setter.  The setter writes coil idx and the getter reads coil           *)
(* idx + ReadOffset: the device reflects a written coil at its read        *)
(* address at a time the program does not control, modelled as a step of   *)
(* its own.                                                                *)
(***************************************************************************)
\* The tree reads as it was commanded, and reads as "open", "closed" or a
\* registered label.
PollInit ==
    /\ TreeInit
    /\ \A v \in ValveIndices : coils[ReadAddr(v)] = coils[WriteAddr(v)]
    /\ TreeValves_state(coils, vtree) # InvalidLabel

\* The writer's one call of the setter.
Writer_set(label) ==
    /\ vcall = NoCall
    /\ TreeValves_state_set(label)

\* The reader's "v.state" while the writer's call is under way.
Reader_poll ==
    /\ Calling
    /\ vobs' = [NoObs EXCEPT !.op = "poll", !.result = TreeValves_state(coils, vtree)]
    /\ UNCHANGED <<coils, vtree, vgrp, vcall>>
    /\ UNCHANGED nonvalve_vars

\* The device shows the coil written for valve v at the address read for v.
Device_readback(v) ==
    /\ coils[ReadAddr(v)] # coils[WriteAddr(v)]
    /\ coils' = [coils EXCEPT ![ReadAddr(v)] = coils[WriteAddr(v)]]
    /\ UNCHANGED <<vtree, vgrp, vcall, vobs>>
    /\ UNCHANGED nonvalve_vars

PollNext ==
    \/ \E label \in SetLabels : Writer_set(label)
    \/ TreeValves_state_write
    \/ Reader_poll
    \/ \E v \in ValveIndices : Device_readback(v)

SpecPoll == PollInit /\ [][PollNext]_vars

\* A Chip with one Valves group over a ValveDriver was constructed; the
\* coils are in any state.
BankInit ==
    /\ coils \in [CoilAddrs -> BOOLEAN]
    /\ vtree = <<>>
    /\ vgrp \in Groups
    /\ vcall = NoCall
    /\ vobs = NoObs
    /\ PortInit
    /\ CodecIdle
    /\ FlowIdle
    /\ DiscIdle
    /\ ChipIdle
    /\ SipIdle
    /\ RunIdle
    /\ ControlIdle
    /\ TileIdle

\* driver[idx] = state mutated to take a negative index from the end, as a
\* list does.
ValveDriver_set_Wrapping(idx, state) ==
    /\ ~Calling
    /\ IF idx >= NumValves
       THEN /\ vobs' = [NoObs EXCEPT !.op = "setitem", !.idx = idx,
                                     !.result = StrLabel("IndexError")]
            /\ UNCHANGED coils
       ELSE LET i == IF idx < 0 THEN idx + NumValves ELSE idx
            IN  /\ coils' = ValveDriver_setitem(coils, i, state)
                /\ vobs' = [NoObs EXCEPT !.op = "setitem", !.idx = idx,
                                         !.req = "write_coil", !.addr = WriteAddr(i)]
    /\ UNCHANGED <<vtree, vgrp, vcall>>
    /\ UNCHANGED nonvalve_vars

\* driver[idx] = state, directly or through Valves.__setitem__; req and addr
\* are the request made to the Modbus client.
ValveDriver_set(idx, state) ==
    /\ ~Calling
    /\ IF idx < 0 \/ idx >= NumValves
       THEN /\ vobs' = [NoObs EXCEPT !.op = "setitem", !.idx = idx,
                                     !.result = StrLabel("IndexError")]
            /\ UNCHANGED coils
       ELSE /\ coils' = ValveDriver_setitem(coils, idx, state)
            /\ vobs' = [NoObs EXCEPT !.op = "setitem", !.idx = idx,
                                     !.req = "write_coil", !.addr = WriteAddr(idx)]
    /\ UNCHANGED <<vtree, vgrp, vcall>>
    /\ UNCHANGED nonvalve_vars

\* driver[idx], directly or through Valves.__getitem__.
ValveDriver_get(idx) ==
    /\ ~Calling
    /\ vobs' = [NoObs EXCEPT !.op = "getitem", !.idx = idx,
                             !.result = StrLabel(ValveDriver_getitem(coils, idx)),
                             !.req = IF idx < 0 \/ idx >= NumValves
                                     THEN "none" ELSE "read_coils",
                             !.addr = IF idx < 0 \/ idx >= NumValves
                                      THEN 0 ELSE ReadAddr(idx)]
    /\ UNCHANGED <<coils, vtree, vgrp, vcall>>
    /\ UNCHANGED nonvalve_vars

\* group == other, for the Valves group of the chip.
Valves_compare(other) ==
    /\ ~Calling
    /\ vobs' = [NoObs EXCEPT !.op = "eq", !.other = other,
                             !.flag = Valves_eq(coils, vgrp, other)]
    /\ UNCHANGED <<coils, vtree, vgrp, vcall>>
    /\ UNCHANGED nonvalve_vars

\* Chip.valves of the chip: the entry of its Valves group.
Chip_valves ==
    /\ ~Calling
    /\ vobs' = [NoObs EXCEPT !.op = "valves",
                             !.result = Chip_valves_entry(coils, vgrp)]
    /\ UNCHANGED <<coils, vtree, vgrp, vcall>>
    /\ UNCHANGED nonvalve_vars

BankNext ==
    \/ \E idx \in (0 - 1)..NumValves, state \in {"open", "closed"} : ValveDriver_set(idx, state)
    \/ \E idx \in (0 - 1)..NumValves : ValveDriver_get(idx)
    \/ \E other \in {"open", "closed", "ajar"} : Valves_compare(other)
    \/ Chip_valves

SpecBank == BankInit /\ [][BankNext]_vars

(***************************************************************************)
(* The Chip of devices/microfluidic.py: named paths over the valve bank.   *)
(***************************************************************************)
\* The mappings a Chip is constructed from: a Valves path, with or without
\* a TreeValves path.
ChipMappings ==
    { ("inlet" :> "Valves") @@ ("mux" :> "TreeValves"),
      ("inlet" :> "Valves") }
\* The names a caller reads and writes: the paths, a name that is no path,
\* and the attribute that holds the chip's name.
ChipKeys == {"inlet", "mux", "outlet", "name"}
\* The states a caller writes to a path: the aliases, a default label and a
\* label no table has.
ChipStates == {OpenLabel, ClosedLabel, IntLabel(0), StrLabel("Z")}
\* The trees of a chip whose mapping gives no label (Chip.__init__ passes
\* the empty rest of the dict).
ChipTrees == { t \in Trees : t.states = [kind |-> "dict", items |-> <<>>] }

\* A Chip over a ValveDriver was constructed (Chip.__init__ set _mapping and
\* name through object.__setattr__); the coils are in any state.
ChipInit ==
    /\ coils \in [CoilAddrs -> BOOLEAN]
    /\ vmap \in ChipMappings
    /\ vtree \in IF "mux" \in DOMAIN vmap THEN ChipTrees ELSE {<<>>}
    /\ vgrp \in Groups
    /\ vattrs = {"_mapping", "name"}
    /\ vcall = NoCall
    /\ vobs = NoObs
    /\ PortInit
    /\ CodecIdle
    /\ FlowIdle
    /\ DiscIdle
    /\ SipIdle
    /\ RunIdle
    /\ ControlIdle
    /\ TileIdle

\* chip.key or chip[key], for a key that normal attribute lookup does not
\* find: Chip.__getattr__.
Chip_getattr(key) ==
    /\ key \notin vattrs
    /\ vobs' = [NoObs EXCEPT
                   !.op = "chip_get",
                   !.other = key,
                   !.result = IF key \notin DOMAIN vmap THEN StrLabel("KeyError")
                              ELSE IF vmap[key] # "Valves"
                              THEN TreeValves_state(coils, vtree)
                              ELSE StrLabel("Valves")]
    /\ UNCHANGED <<coils, vtree, vgrp, vcall>>
    /\ UNCHANGED chip_vars
    /\ UNCHANGED nonchip_vars

\* Chip.__setattr__ mutated to fall back to object.__setattr__ for a name
\* that is no path.
Chip_setattr_Default(key, state) ==
    /\ IF key \notin DOMAIN vmap
       THEN /\ vattrs' = vattrs \cup {key}
            /\ vobs' = [NoObs EXCEPT !.op = "chip_set", !.other = key, !.arg = state]
            /\ UNCHANGED coils
       ELSE /\ vobs' = [NoObs EXCEPT !.op = "chip_set", !.other = key, !.arg = state]
            /\ coils' = IF vmap[key] # "Valves"
                        THEN ApplyWrites(coils, WritePlan(vtree, state))
                        ELSE ApplyWrites(coils, Fill(vgrp, state.s))
            /\ UNCHANGED vattrs
    /\ UNCHANGED <<vtree, vgrp, vcall, vmap>>
    /\ UNCHANGED nonchip_vars

\* chip.key = state or chip[key] = state: Chip.__setattr__.
Chip_setattr(key, state) ==
    /\ IF key \notin DOMAIN vmap
       THEN /\ vobs' = [NoObs EXCEPT !.op = "chip_set", !.other = key, !.arg = state,
                                     !.result = StrLabel("KeyError")]
            /\ UNCHANGED coils
       ELSE IF vmap[key] # "Valves"
       THEN IF state \notin {OpenLabel, ClosedLabel}
               /\ ~DictHas(vtree.labels_to_states, state)
            THEN /\ vobs' = [NoObs EXCEPT !.op = "chip_set", !.other = key, !.arg = state,
                                          !.result = StrLabel("KeyError")]
                 /\ UNCHANGED coils
            ELSE /\ vobs' = [NoObs EXCEPT !.op = "chip_set", !.other = key, !.arg = state]
                 /\ coils' = ApplyWrites(coils, WritePlan(vtree, state))
       ELSE /\ vobs' = [NoObs EXCEPT !.op = "chip_set", !.other = key, !.arg = state]
            /\ coils' = ApplyWrites(coils, Fill(vgrp, state.s))
    /\ UNCHANGED <<vtree, vgrp, vcall>>
    /\ UNCHANGED chip_vars
    /\ UNCHANGED nonchip_vars

ChipNext ==
    \/ \E key \in ChipKeys : Chip_getattr(key)
    \/ \E key \in ChipKeys, state \in ChipStates : Chip_setattr(key, state)

SpecChip == ChipInit /\ [][ChipNext]_vars

\* A Chip with a tree path, used both through the Chip and through the
\* TreeValves itself.  The coils that are only read start cleared.
MuxInit ==
    /\ ChipInit
    /\ "mux" \in DOMAIN vmap
    /\ vgrp = <<0>>
    /\ \A i \in ValveIndices : ~coils[ReadAddr(i)]

MuxNext == ChipNext \/ TreeNext

SpecMux == MuxInit /\ [][MuxNext]_vars

(***************************************************************************)
(* Sipper (devices/fluidic/fluidic.py): a CNC arm over a well plate, a      *)
(* pump and a valve, each behind its own serial socket.                    *)
(*                                                                         *)
(* Coordinates are fractions of the travel of an axis.  They are kept as   *)
(* integers: One[i] stands for 1.0 on axis i, chosen so that the corner    *)
(* positions used here divide exactly by 11 on x and by 7 on y.            *)
(*                                                                         *)
(* A Sipper method runs in the caller's thread from its first statement    *)
(* to its return or to the exception that ends it.  It is computed on a    *)
(* record m: the cached fields (sip), what the devices acknowledged (dev), *)
(* the commands written (log), the exception raised ("" when none) and the *)
(* air flag read.  Once m.err is set the remaining statements are skipped. *)
(***************************************************************************)
\* Sipper operations performed after construction.
MaxSipOps == 2
\* Exchanges of one operation the device does not acknowledge.
MaxFaults == 1
\* `/ 11` and `11 - col` of the well setter: column steps from A1 to H12.
ColSpan == 11
\* `/ 7` and `7 - row` of the well setter: row steps from A1 to H12.
RowSpan == 7
\* `int(pos[1:]) > 12` of the well setter.
MaxColumn == 12
\* `self.frequency = 200` and `self.voltage = 250` of flow and purge.
PumpFrequency == 200
PumpVoltage == 250

\* 1.0 on the x, y and z axis.
One == <<2 * ColSpan, 2 * RowSpan, 2>>
Zeros == <<0, 0, 0>>

\* Well labels are strings, kept as sequences of characters.
NoneWell == <<"n", "o", "n", "e">>
RowLetters == <<"A", "B", "C", "D", "E", "F", "G", "H">>
DecDigits == <<"0", "1", "2", "3", "4", "5", "6", "7", "8", "9">>
IsDecDigit(c) == \E i \in 1..Len(DecDigits) : DecDigits[i] = c
DecValue(c) == (CHOOSE i \in 1..Len(DecDigits) : DecDigits[i] = c) - 1
IsRowLetter(c) == \E i \in 1..Len(RowLetters) : RowLetters[i] = c

\* re.fullmatch(r"[A-H]1?[0-9]", pos)
FullMatch(pos) ==
    /\ Len(pos) \in {2, 3}
    /\ IsRowLetter(pos[1])
    /\ Len(pos) = 3 => pos[2] = "1"
    /\ IsDecDigit(pos[Len(pos)])

\* int(s) of a string of one or two decimal digits.
ParseInt(s) ==
    IF Len(s) = 1 THEN DecValue(s[1]) ELSE 10 * DecValue(s[1]) + DecValue(s[2])

\* ord(c) - ord("A") for a row letter.
RowIndex(c) == (CHOOSE i \in 1..Len(RowLetters) : RowLetters[i] = c) - 1

\* self._mapping.get(new_well, new_well)
MappingGet(mapping, key) == IF key \in DOMAIN mapping THEN mapping[key] ELSE key

\* The labels handed to the well setter, to flow and to purge.
WellLabels ==
    { <<"A", "1">>, <<"H", "1", "2">>, <<"B", "2">>, <<"A", "0">>, <<"I", "1">>,
      <<"A", "1", "3">>, <<"w">>, NoneWell }

\* Corner positions: A1 and H12 on either side of each other, on each axis.
SipCorners == { <<x, y>> : x \in {0, ColSpan}, y \in {0, RowSpan} }

\* The constructor's arguments.  a1_pos comes as a list (from the
\* configuration file) or as a numpy array; z_bottom is half the travel; the
\* two corner wells differ on both axes.
SipConfigs ==
    { c \in [a1 : SipCorners, h12 : SipCorners, kind : {"list", "ndarray"},
             z_bottom : {1}, mapping : { (<<"w">> :> <<"H", "1", "2">>) }] :
        c.a1[1] # c.h12[1] /\ c.a1[2] # c.h12[2] }

\* The values handed to the x, y and z setters, and the points handed to xyz.
AxisValues == {0 - 1, 0, 1}
SipPoints == { <<0, 0, 0>>, <<ColSpan, RowSpan, 1>>, <<One[1] + 1, 0, 0>> }

\* The outcomes of the n exchanges of an operation: TRUE when the device
\* answered (with the zero byte where one is expected), FALSE when it
\* answered with an error byte or not at all before the read timed out.
Acks(n) ==
    { o \in [1..n -> BOOLEAN] : Cardinality({ i \in 1..n : ~o[i] }) <= MaxFaults }

Raise(m, e) == [m EXCEPT !.err = e]
Sent(sock, cmd, ack) == [sock |-> sock, cmd |-> cmd, ack |-> ack]

\* The xyz setter.  x is <<v>> for a number and longer for an array, in
\* which case np.array(value) or the range test raises ValueError.  The byte
\* read back is not looked at: the position is recorded with or without it.
xyz_set(m, x, y, z, ack) ==
    IF m.err # "" THEN m
    ELSE IF Len(x) # 1 THEN Raise(m, "ValueError")
    ELSE IF \/ x[1] < 0 \/ y < 0 \/ z < 0
            \/ x[1] > One[1] \/ y > One[2] \/ z > One[3]
    THEN Raise(m, "ValueError")
    ELSE [m EXCEPT !.log = Append(@, Sent("cnc", <<1, x[1], y, z>>, ack)),
                   !.dev.xyz = IF ack THEN <<x[1], y, z>> ELSE @,
                   !.sip.xyz = <<x[1], y, z>>]

x_set(m, value, ack) ==
    IF m.err # "" THEN m ELSE xyz_set(m, <<value>>, m.sip.xyz[2], m.sip.xyz[3], ack)

y_set(m, value, ack) ==
    IF m.err # "" THEN m ELSE xyz_set(m, <<m.sip.xyz[1]>>, value, m.sip.xyz[3], ack)

z_set(m, value, ack) ==
    IF m.err # "" THEN m ELSE xyz_set(m, <<m.sip.xyz[1]>>, m.sip.xyz[2], value, ack)

\* set_pump: anything but the zero byte raises, through atomic_msg.
set_pump(m, voltage, frequency, ack) ==
    IF m.err # "" THEN m
    ELSE LET m1 == [m EXCEPT !.log = Append(@, Sent("pump", <<frequency, voltage>>, ack))]
         IN  IF ack
             THEN [m1 EXCEPT !.dev.voltage = voltage, !.dev.frequency = frequency]
             ELSE Raise(m1, "RuntimeError")

frequency_set(m, value, ack) ==
    IF m.err # "" THEN m
    ELSE LET m1 == set_pump(m, m.sip.voltage, value, ack)
         IN  IF m1.err # "" THEN m1 ELSE [m1 EXCEPT !.sip.frequency = value]

voltage_set(m, value, ack) ==
    IF m.err # "" THEN m
    ELSE LET m1 == set_pump(m, value, m.sip.frequency, ack)
         IN  IF m1.err # "" THEN m1 ELSE [m1 EXCEPT !.sip.voltage = value]

pause(m, o) == frequency_set(voltage_set(m, 0, o[1]), 0, o[2])

valve_set(m, value, ack) ==
    IF m.err # "" THEN m
    ELSE LET v  == IF value = "open" THEN 1 ELSE 0
             m1 == [m EXCEPT !.log = Append(@, Sent("valve", <<v>>, ack))]
         IN  IF ack
             THEN [m1 EXCEPT !.dev.valve = v, !.sip.valve = v]
             ELSE Raise(m1, "RuntimeError")

\* home: the cached well and position are reset before the command is
\* written, and the byte read back is not looked at.
home(m, o) ==
    IF m.err # "" THEN m
    ELSE LET m1 == pause([m EXCEPT !.sip.well = NoneWell], SubSeq(o, 1, 2))
         IN  IF m1.err # "" THEN m1
             ELSE [m1 EXCEPT !.sip.xyz = Zeros,
                             !.log = Append(@, Sent("cnc", <<0>>, o[3])),
                             !.dev.xyz = IF o[3] THEN Zeros ELSE @]

\* air: sensor_info on the valve socket, then bit 0 of the flags.
air(m, ack, flag) ==
    IF m.err # "" THEN m
    ELSE LET m1 == [m EXCEPT !.log = Append(@, Sent("valve", <<2>>, ack))]
         IN  IF ack
             THEN [m1 EXCEPT !.air = IF flag THEN "true" ELSE "false"]
             ELSE Raise(m1, "RuntimeError")

\* The x coordinate the well setter computes.  When A1 lies left of H12 the
\* sum starts from self._a1, the whole position: it has one entry per entry
\* of a1_pos (and cannot be formed at all when a1_pos is a list).
WellX(cfg, pos) ==
    LET col == ParseInt(Tail(pos)) - 1
    IN  IF cfg.a1[1] < cfg.h12[1]
        THEN [i \in 1..Len(cfg.a1) |->
                 cfg.a1[i] + (col * (cfg.h12[1] - cfg.a1[1])) \div ColSpan]
        ELSE <<cfg.h12[1] + ((ColSpan - col) * (cfg.a1[1] - cfg.h12[1])) \div ColSpan>>

WellY(cfg, pos) ==
    LET row == RowIndex(pos[1])
    IN  IF cfg.a1[2] < cfg.h12[2]
        THEN cfg.a1[2] + (row * (cfg.h12[2] - cfg.a1[2])) \div RowSpan
        ELSE cfg.h12[2] + ((RowSpan - row) * (cfg.a1[2] - cfg.h12[2])) \div RowSpan

\* The well setter.
well_set(m, cfg, new_well, o) ==
    IF m.err # "" THEN m
    ELSE IF new_well = NoneWell
    THEN LET m1 == z_set(m, 0, o[1])
         IN  IF m1.err # "" THEN m1 ELSE [m1 EXCEPT !.sip.well = NoneWell]
    ELSE LET pos == MappingGet(cfg.mapping, new_well)
         IN  IF ~FullMatch(pos) THEN Raise(m, "ValueError")
             ELSE IF ParseInt(Tail(pos)) > MaxColumn THEN Raise(m, "ValueError")
             ELSE IF cfg.a1[1] < cfg.h12[1] /\ cfg.kind = "list"
             THEN Raise(m, "TypeError")
             ELSE LET m1 == z_set(m, 0, o[1])
                      m2 == xyz_set(m1, WellX(cfg, pos), WellY(cfg, pos), 0, o[2])
                      m3 == z_set(m2, cfg.z_bottom, o[3])
                  IN  IF m3.err # "" THEN m3 ELSE [m3 EXCEPT !.sip.well = new_well]

flow(m, cfg, well, o) ==
    LET m1 == pause(m, SubSeq(o, 1, 2))
        m2 == well_set(m1, cfg, well, SubSeq(o, 3, 5))
        m3 == valve_set(m2, "closed", o[6])
        m4 == frequency_set(m3, PumpFrequency, o[7])
    IN  voltage_set(m4, PumpVoltage, o[8])

purge(m, cfg, well, o) ==
    LET m1 == pause(m, SubSeq(o, 1, 2))
        m2 == well_set(m1, cfg, well, SubSeq(o, 3, 5))
        m3 == valve_set(m2, "open", o[6])
        m4 == frequency_set(m3, PumpFrequency, o[7])
    IN  voltage_set(m4, PumpVoltage, o[8])

\* The fields __init__ assigns before it calls home(); no device has
\* acknowledged anything yet.
Fresh ==
    [sip |-> [xyz |-> Zeros, well |-> NoneWell, valve |-> 1, frequency |-> 0,
              voltage |-> 0],
     dev |-> [xyz |-> <<None, None, None>>, valve |-> None, frequency |-> None,
              voltage |-> None],
     log |-> <<>>, err |-> "", air |-> "unread"]

\* The record an operation starts from.
Entry == [sip |-> sip, dev |-> sdev, log |-> <<>>, err |-> "", air |-> "unread"]

\* What an operation leaves behind.
Called(op, arg, m) ==
    [op |-> op, arg |-> arg, log |-> m.log, result |-> m.err, air |-> m.air,
     pre |-> sip]

Leave(op, arg, m) ==
    /\ sip' = m.sip
    /\ sdev' = m.dev
    /\ scall' = Called(op, arg, m)
    /\ sops' = sops + 1
    /\ UNCHANGED scfg
    /\ UNCHANGED nonsip_vars

\* A Sipper was constructed: __init__ ran home() to its end.
SipInit ==
    /\ scfg \in SipConfigs
    /\ \E ack \in BOOLEAN :
          LET m == home(Fresh, <<TRUE, TRUE, ack>>)
          IN  /\ sip = m.sip
              /\ sdev = m.dev
              /\ scall = [op |-> "init", arg |-> <<>>, log |-> m.log, result |-> m.err,
                          air |-> m.air, pre |-> Fresh.sip]
    /\ sops = 0
    /\ CodecIdle /\ PortInit /\ FlowIdle /\ DiscIdle /\ ValveIdle /\ ChipIdle
    /\ RunIdle
    /\ ControlIdle
    /\ TileIdle

Sipper_well(new_well) ==
    /\ sops < MaxSipOps
    /\ \E o \in Acks(3) : Leave("well", new_well, well_set(Entry, scfg, new_well, o))
Sipper_xyz(value) ==
    /\ sops < MaxSipOps
    /\ \E ack \in BOOLEAN : Leave("xyz", value, xyz_set(Entry, <<value[1]>>, value[2], value[3], ack))
Sipper_x(value) ==
    /\ sops < MaxSipOps
    /\ \E ack \in BOOLEAN : Leave("x", value, x_set(Entry, value, ack))
Sipper_y(value) ==
    /\ sops < MaxSipOps
    /\ \E ack \in BOOLEAN : Leave("y", value, y_set(Entry, value, ack))
Sipper_z(value) ==
    /\ sops < MaxSipOps
    /\ \E ack \in BOOLEAN : Leave("z", value, z_set(Entry, value, ack))
Sipper_home ==
    /\ sops < MaxSipOps
    /\ \E o \in Acks(3) : Leave("home", <<>>, home(Entry, o))
Sipper_pause ==
    /\ sops < MaxSipOps
    /\ \E o \in Acks(2) : Leave("pause", <<>>, pause(Entry, o))
Sipper_valve(value) ==
    /\ sops < MaxSipOps
    /\ \E ack \in BOOLEAN : Leave("valve", value, valve_set(Entry, value, ack))
Sipper_frequency(value) ==
    /\ sops < MaxSipOps
    /\ \E ack \in BOOLEAN : Leave("frequency", value, frequency_set(Entry, value, ack))
Sipper_voltage(value) ==
    /\ sops < MaxSipOps
    /\ \E ack \in BOOLEAN : Leave("voltage", value, voltage_set(Entry, value, ack))
Sipper_air ==
    /\ sops < MaxSipOps
    /\ \E ack \in BOOLEAN, flag \in BOOLEAN : Leave("air", <<>>, air(Entry, ack, flag))
Sipper_flow(well) ==
    /\ sops < MaxSipOps
    /\ \E o \in Acks(8) : Leave("flow", well, flow(Entry, scfg, well, o))
Sipper_purge(well) ==
    /\ sops < MaxSipOps
    /\ \E o \in Acks(8) : Leave("purge", well, purge(Entry, scfg, well, o))

SipNext ==
    \/ \E w \in WellLabels : Sipper_well(w)
    \/ \E p \in SipPoints : Sipper_xyz(p)
    \/ \E v \in AxisValues : Sipper_x(v)
    \/ \E v \in AxisValues : Sipper_y(v)
    \/ \E v \in AxisValues : Sipper_z(v)
    \/ Sipper_home
    \/ Sipper_pause
    \/ \E v \in {"open", "closed"} : Sipper_valve(v)
    \/ \E v \in {0, PumpFrequency} : Sipper_frequency(v)
    \/ \E v \in {0, PumpVoltage} : Sipper_voltage(v)
    \/ Sipper_air
    \/ \E w \in WellLabels : Sipper_flow(w)
    \/ \E w \in WellLabels : Sipper_purge(w)

SpecSip == SipInit /\ [][SipNext]_vars

(***************************************************************************)
(* run (session.py, gui.py and run.py) and the Runner it returns.           *)
(*                                                                         *)
(* Two threads: the caller of run(), which then calls pause, resume, quit  *)
(* and join on what run() returned, and the worker thread that drives the  *)
(* generator.  A generator with n yield statements has n + 1 segments:     *)
(* each next() executes one, and the last one ends in StopIteration.       *)
(***************************************************************************)
\* yield statements of the generator handed to run().
MaxYields == 3
\* Calls the calling thread makes on the runner.
MaxCalls == 3

\* The program before run(f) is called.
RunInit ==
    /\ rimpl \in {"session", "run"}
    /\ rgen \in 1..MaxYields
    /\ rmain = "start"
    /\ rrunning = FALSE
    /\ rquit = FALSE
    /\ wpc = "none"
    /\ gpos = 0
    /\ rlog = <<>>
    /\ wend = ""
    /\ rcalls = 0
    /\ rhist = NoHist
    /\ CodecIdle /\ PortInit /\ FlowIdle /\ DiscIdle /\ ValveIdle /\ ChipIdle /\ SipIdle
    /\ ControlIdle
    /\ TileIdle

\* run(f) of session.py: Runner.__init__ makes the two events, sets
\* _running, starts the worker thread; run returns the Runner.
Run_session ==
    /\ rmain = "start"
    /\ rimpl = "session"
    /\ rrunning' = TRUE
    /\ rquit' = FALSE
    /\ wpc' = "call"
    /\ rmain' = "idle"
    /\ rhist' = [rhist EXCEPT !.returned = "Runner"]
    /\ UNCHANGED <<rimpl, rgen, gpos, rlog, wend, rcalls>>
    /\ UNCHANGED nonrun_vars

\* run(f) of run.py: Session() is called without init_client, which has no
\* default: TypeError, before a worker is registered or started.
Run_run ==
    /\ rmain = "start"
    /\ rimpl = "run"
    /\ rmain' = "raised"
    /\ UNCHANGED <<rimpl, rgen, rrunning, rquit, wpc, gpos, rlog, wend, rcalls, rhist>>
    /\ UNCHANGED nonrun_vars

\* run_worker: run_func(self) makes the generator.
Worker_call ==
    /\ wpc = "call"
    /\ wpc' = "next"
    /\ rhist' = [rhist EXCEPT !.passed = "Runner"]
    /\ UNCHANGED <<rimpl, rgen, rmain, rrunning, rquit, gpos, rlog, wend, rcalls>>
    /\ UNCHANGED nonrun_vars

\* run_worker: the for statement calls next() on the generator.
Worker_next ==
    /\ wpc = "next"
    /\ rlog' = Append(rlog, gpos + 1)
    /\ IF gpos < rgen
       THEN gpos' = gpos + 1 /\ wpc' = "wait" /\ UNCHANGED wend
       ELSE wpc' = "done" /\ wend' = "exhausted" /\ UNCHANGED gpos
    /\ rhist' = [rhist EXCEPT !.after = IF rhist.quit_returned THEN @ + 1 ELSE @]
    /\ UNCHANGED <<rimpl, rgen, rmain, rrunning, rquit, rcalls>>
    /\ UNCHANGED nonrun_vars

\* run_worker: self._running.wait()
Worker_wait ==
    /\ wpc = "wait"
    /\ rrunning
    /\ wpc' = "check"
    /\ UNCHANGED <<rimpl, rgen, rmain, rrunning, rquit, gpos, rlog, wend, rcalls, rhist>>
    /\ UNCHANGED nonrun_vars

\* run_worker without the test of _quit.
Worker_check_Deaf ==
    /\ wpc = "check"
    /\ wpc' = "next"
    /\ UNCHANGED wend
    /\ UNCHANGED <<rimpl, rgen, rmain, rrunning, rquit, gpos, rlog, rcalls, rhist>>
    /\ UNCHANGED nonrun_vars

\* run_worker: if self._quit.is_set(): break
Worker_check ==
    /\ wpc = "check"
    /\ IF rquit
       THEN wpc' = "done" /\ wend' = "break"
       ELSE wpc' = "next" /\ UNCHANGED wend
    /\ UNCHANGED <<rimpl, rgen, rmain, rrunning, rquit, gpos, rlog, rcalls, rhist>>
    /\ UNCHANGED nonrun_vars

Runner_pause ==
    /\ rmain = "idle"
    /\ rcalls < MaxCalls
    /\ rrunning' = FALSE
    /\ rcalls' = rcalls + 1
    /\ rhist' = [rhist EXCEPT !.paused = TRUE, !.last = "pause"]
    /\ UNCHANGED <<rimpl, rgen, rmain, rquit, wpc, gpos, rlog, wend>>
    /\ UNCHANGED nonrun_vars

Runner_resume ==
    /\ rmain = "idle"
    /\ rcalls < MaxCalls
    /\ rrunning' = TRUE
    /\ rcalls' = rcalls + 1
    /\ rhist' = [rhist EXCEPT !.last = "resume"]
    /\ UNCHANGED <<rimpl, rgen, rmain, rquit, wpc, gpos, rlog, wend>>
    /\ UNCHANGED nonrun_vars

\* quit, first statement: self._running.set()
Runner_quit_running ==
    /\ rmain = "idle"
    /\ rcalls < MaxCalls
    /\ rrunning' = TRUE
    /\ rmain' = "quit"
    /\ rcalls' = rcalls + 1
    /\ rhist' = [rhist EXCEPT !.quit_called = TRUE]
    /\ UNCHANGED <<rimpl, rgen, rquit, wpc, gpos, rlog, wend>>
    /\ UNCHANGED nonrun_vars

\* quit, second statement: self._quit.set(); quit returns.
Runner_quit_quit ==
    /\ rmain = "quit"
    /\ rquit' = TRUE
    /\ rmain' = "idle"
    /\ rhist' = [rhist EXCEPT !.quit_returned = TRUE,
                              !.alive = IF rhist.quit_returned THEN @ ELSE wpc # "done",
                              !.last = "quit"]
    /\ UNCHANGED <<rimpl, rgen, rrunning, wpc, gpos, rlog, wend, rcalls>>
    /\ UNCHANGED nonrun_vars

\* join is called: self._worker.join() blocks the caller.
Runner_join ==
    /\ rmain = "idle"
    /\ rcalls < MaxCalls
    /\ rmain' = "join"
    /\ rcalls' = rcalls + 1
    /\ rhist' = [rhist EXCEPT !.before_join = rhist.last, !.last = "join"]
    /\ UNCHANGED <<rimpl, rgen, rrunning, rquit, wpc, gpos, rlog, wend>>
    /\ UNCHANGED nonrun_vars

\* join returns: the worker thread has ended.
Runner_joined ==
    /\ rmain = "join"
    /\ wpc = "done"
    /\ rmain' = "idle"
    /\ rhist' = [rhist EXCEPT !.joined = TRUE]
    /\ UNCHANGED <<rimpl, rgen, rrunning, rquit, wpc, gpos, rlog, wend, rcalls>>
    /\ UNCHANGED nonrun_vars

Worker == Worker_call \/ Worker_next \/ Worker_wait \/ Worker_check

RunNext ==
    \/ Run_session
    \/ Run_run
    \/ Worker_call
    \/ Worker_next
    \/ Worker_wait
    \/ Worker_check
    \/ Runner_pause
    \/ Runner_resume
    \/ Runner_quit_running
    \/ Runner_quit_quit
    \/ Runner_join
    \/ Runner_joined

SpecRun == RunInit /\ [][RunNext]_vars

\* The scheduler lets a thread that can take a step take one.
SpecRunLive ==
    /\ RunInit
    /\ [][RunNext]_vars
    /\ WF_vars(Worker)
    /\ WF_vars(Runner_quit_quit)
    /\ WF_vars(Runner_joined)

(***************************************************************************)
(* Control (control.py): the device list and the active camera, stage and  *)
(* focus.  A device is its name and the protocols isinstance() finds it to *)
(* satisfy.  Control overrides __setattr__: an assignment to an attribute  *)
(* named like a device with a state sets that device's state; everything   *)
(* else, the camera/stage/focus properties included, goes to               *)
(* object.__setattr__.  Device names are the keys of the configuration;    *)
(* none starts with an underscore here.                                    *)
(***************************************************************************)
MaxDevices == 3
DeviceNames == {"d1", "d2", "camera"}
ProtoSets == { {"Camera"}, {"Stage"}, {"Stage", "Focus"}, {"State"} }
DevicePool == { [name |-> n, protos |-> p] : n \in DeviceNames, p \in ProtoSets }

RECURSIVE DeviceLists(_)
DeviceLists(k) ==
    IF k = 0 THEN { <<>> }
    ELSE LET prev == DeviceLists(k - 1)
         IN  prev \cup { Append(l, d) : l \in { q \in prev : Len(q) = k - 1 },
                                         d \in DevicePool }

\* The Control attributes that select a device, and the protocol of each.
Selectors == {"camera", "stage", "focus"}
ProtocolOf(attr) ==
    CASE attr = "camera" -> "Camera"
      [] attr = "stage" -> "Stage"
      [] attr = "focus" -> "Focus"

\* "for device in self.devices: if <test>: ...; break": the position of the
\* first device passing the test, 0 when the loop ends without one.
FirstDevice(devs, Test(_)) ==
    IF \E i \in 1..Len(devs) : Test(devs[i])
    THEN CHOOSE i \in 1..Len(devs) : Test(devs[i]) /\ \A j \in 1..(i - 1) : ~Test(devs[j])
    ELSE 0

\* Control.__init__: the first Camera, the first Stage, the first Focus.
Control_init(devs) ==
    [a \in Selectors |->
        LET IsA(d) == ProtocolOf(a) \in d.protos
        IN  FirstDevice(devs, IsA)]

ControlInit ==
    /\ devices \in DeviceLists(MaxDevices)
    /\ active = Control_init(devices)
    /\ dstate = [i \in 1..Len(devices) |-> ""]
    /\ kobs = NoCtlObs
    /\ PortInit
    /\ CodecIdle
    /\ FlowIdle
    /\ DiscIdle
    /\ ValveIdle
    /\ ChipIdle
    /\ SipIdle
    /\ RunIdle
    /\ TileIdle

\* The setter of the camera, stage or focus property called with name.
Selector_set(attr, name) ==
    LET Named(d) == d.name = name /\ ProtocolOf(attr) \in d.protos
        i == FirstDevice(devices, Named)
    IN  IF i # 0
        THEN /\ active' = [active EXCEPT ![attr] = i]
             /\ kobs' = [op |-> attr, name |-> name, result |-> "ok"]
        ELSE /\ kobs' = [op |-> attr, name |-> name, result |-> "ValueError"]
             /\ UNCHANGED active

\* control.attr = name for attr one of camera, stage, focus:
\* Control.__setattr__.
Control_setattr(attr, name) ==
    /\ attr \in Selectors
    /\ LET HasState(d) == d.name = attr /\ "State" \in d.protos
           i == FirstDevice(devices, HasState)
       IN  IF i # 0
           THEN /\ dstate' = [dstate EXCEPT ![i] = name]
                /\ kobs' = [op |-> attr, name |-> name, result |-> "ok"]
                /\ UNCHANGED active
           ELSE /\ Selector_set(attr, name)
                /\ UNCHANGED dstate
    /\ UNCHANGED devices
    /\ UNCHANGED noncontrol_vars

\* The names a caller assigns: those of devices and one that no device has.
AssignedNames == DeviceNames \cup {"d3"}

ControlNext ==
    \E attr \in Selectors, name \in AssignedNames : Control_setattr(attr, name)

SpecControl == ControlInit /\ [][ControlNext]_vars

(***************************************************************************)
(* tile_coords (run.py): the stage coordinates of the tiles that cover a   *)
(* rectangle.  Coordinates and the pixel length are kept as integers in    *)
(* units of 1 / Unit; the overlap is a fraction num / den.  numpy.arange   *)
(* with a zero step raises.                                                *)
(***************************************************************************)
Unit == 2
MaxTile == 3
MaxCoord == 3
\* ctrl.px_len: 0.5 and 1.0.
PxLens == {1, Unit}
Overlaps ==
    { [num |-> 0, den |-> 1], [num |-> 1, den |-> 10], [num |-> 1, den |-> 2],
      [num |-> 3, den |-> 4], [num |-> 1, den |-> 1] }
Coords == { Unit * c : c \in (0 - 1)..MaxCoord }
TileArgs ==
    [width : 1..MaxTile, height : 1..MaxTile, px_len : PxLens, overlap : Overlaps,
     top_left : {0, Unit} \X {0}, bot_right : Coords \X Coords]

\* Python's round() of num / den (not negative): to the nearest integer, a
\* tie to the even one.
PyRound(num, den) ==
    LET q == num \div den
        r == num % den
    IN  IF 2 * r < den THEN q
        ELSE IF 2 * r > den THEN q + 1
        ELSE IF q % 2 = 0 THEN q ELSE q + 1

\* The least integer not below a / b, for b > 0.
CeilDiv(a, b) == 0 - ((0 - a) \div b)

\* numpy.arange with the last value included when it falls on stop.
np_arange_Closed(start, stop, step) ==
    LET n == IF stop >= start THEN ((stop - start) \div step) + 1 ELSE 0
    IN  [i \in 1..n |-> start + (i - 1) * step]

\* numpy.arange(start, stop, step) for step > 0: ceil((stop - start) / step)
\* values from start on, none when that is not positive.
np_arange(start, stop, step) ==
    LET n == IF stop > start THEN CeilDiv(stop - start, step) ELSE 0
    IN  [i \in 1..n |-> start + (i - 1) * step]

\* tile_coords(ctrl, top_left, bot_right, overlap).
tile_coords(a) ==
    LET overlap_x == PyRound(a.overlap.num * a.width, a.overlap.den)
        overlap_y == PyRound(a.overlap.num * a.height, a.overlap.den)
        delta_x == (a.width - overlap_x) * a.px_len
        delta_y == (a.height - overlap_y) * a.px_len
    IN  IF delta_x = 0 \/ delta_y = 0
        THEN [status |-> "error", xs |-> <<>>, ys |-> <<>>]
        ELSE [status |-> "ok",
              xs |-> np_arange(a.top_left[1], a.bot_right[1] + delta_x - Unit, delta_x),
              ys |-> np_arange(a.top_left[2], a.bot_right[2] + delta_y - Unit, delta_y)]

TileInit ==
    /\ targs \in TileArgs
    /\ tres = NoTiles
    /\ PortInit
    /\ CodecIdle
    /\ FlowIdle
    /\ DiscIdle
    /\ ValveIdle
    /\ ChipIdle
    /\ SipIdle
    /\ RunIdle
    /\ ControlIdle

Tile_coords ==
    /\ tres.status = "none"
    /\ tres' = tile_coords(targs)
    /\ UNCHANGED targs
    /\ UNCHANGED nontile_vars

TileNext == Tile_coords

SpecTile == TileInit /\ [][TileNext]_vars

(***************************************************************************)
(* Frame structure, for the statements about frames.                       *)
(***************************************************************************)
\* The positions of the length bytes of frame f, following each length byte
\* to the next from position p.
RECURSIVE LengthBytes(_, _)
LengthBytes(f, p) ==
    IF p >= Len(f) \/ f[p] = 0 THEN {}
    ELSE {p} \cup LengthBytes(f, p + f[p])

\* f is one frame: its only zero byte is its last byte, every length byte c
\* is followed by c - 1 <= 254 data bytes and then by the next length byte
\* or by the terminator.
OneFrame(f) ==
    /\ Len(f) >= 2
    /\ f[Len(f)] = 0
    /\ \A i \in 1..(Len(f) - 1) : f[i] # 0
    /\ \A p \in LengthBytes(f, 1) :
          /\ f[p] - 1 <= MaxCode - 1
          /\ p + f[p] <= Len(f)
          /\ (p + f[p] = Len(f) \/ p + f[p] \in LengthBytes(f, 1))

NonZeroCount(d) == Cardinality({ i \in 1..Len(d) : d[i] # 0 })

Live(h) == hstate[h] = "live" /\ ~hclosed[h]

\* Some thread is inside Port.__init__ or Port.close for port name n.
InFlight(n) ==
    \E t \in Threads : th[t].port = n /\ pc[t] \in
        {"init_lock", "init_open", "init_ref0", "init_mklock", "init_incr",
         "close_lock", "close_check", "close_decr", "close_pop_serial",
         "close_pop_ref", "close_pop_lock", "close_sclose"}

OpenConns(n) == { c \in 1..Len(conns) : conns[c].port = n /\ conns[c].open }

(***************************************************************************)
(* C3: Port handles of one name share one physical connection, the one     *)
(* that was registered when each was constructed; while any of them is not *)
(* closed that connection is registered and open (so I/O through it is     *)
(* possible); once all are closed (and no construction or close is under   *)
(* way) the name is out of the registry and every connection opened for it *)
(* is closed, so a later Port of the name gets a new connection.           *)
(***************************************************************************)
C3_SharedLifecycle ==
    /\ \A h \in Handles : Live(h) =>
          /\ hname[h] \in DOMAIN serials
          /\ serials[hname[h]] = hconn[h]
          /\ conns[hconn[h]].open
    /\ \A g, h \in Handles : (Live(g) /\ Live(h) /\ hname[g] = hname[h]) => hconn[g] = hconn[h]
    /\ \A n \in Ports :
          ((\A h \in Handles : ~(Live(h) /\ hname[h] = n)) /\ ~InFlight(n)) =>
              (n \notin DOMAIN serials /\ OpenConns(n) = {})

\* Two handles shared a connection, both were closed and the connection is
\* closed; a third handle of the same name is live on a new open connection.
C3_Witness ==
    \E h1, h2, h3 \in Handles :
        /\ h1 # h2
        /\ hstate[h1] = "live" /\ hclosed[h1]
        /\ hstate[h2] = "live" /\ hclosed[h2]
        /\ hname[h1] = hname[h2] /\ hconn[h1] = hconn[h2]
        /\ ~conns[hconn[h1]].open
        /\ Live(h3) /\ hname[h3] = hname[h1]
        /\ hconn[h3] # hconn[h1]
        /\ conns[hconn[h3]].open
        /\ serials[hname[h3]] = hconn[h3]

(***************************************************************************)
(* C4: at every moment at most one open physical connection exists per     *)
(* port name.                                                              *)
(***************************************************************************)
C4_AtMostOneOpen ==
    \A n \in Ports : Cardinality(OpenConns(n)) <= 1

(***************************************************************************)
(* C5: no two handle operations of different threads execute on the same   *)
(* physical connection at the same time.                                   *)
(***************************************************************************)
C5_MutualExclusion ==
    \A t1, t2 \in Threads :
        (t1 # t2 /\ pc[t1] = "io_exec" /\ pc[t2] = "io_exec"
            /\ conns[th[t1].conn].open)
        => th[t1].conn # th[t2].conn

(***************************************************************************)
(* C6: with Stage and Focus sharing one port, each _cmd that reads a       *)
(* response line reads the line the controller produced for its own        *)
(* command (as long as no readline has timed out).                         *)
(***************************************************************************)
C6_OwnResponse ==
    \A t \in Threads : (~timeouts /\ cmd_resp[t] # 0) => cmd_resp[t] = t

(***************************************************************************)
(* C7: however often and from whichever threads close() is called on one   *)
(* Port, the reference count is decremented for it exactly once and no     *)
(* connection is closed more than once; a call that finds the Port closed  *)
(* returns and changes nothing.                                            *)
(***************************************************************************)
C7_CloseOnce ==
    /\ [](/\ \A h \in Handles : hdecs[h] <= 1 /\ (hdecs[h] = 1 => hclosed[h])
          /\ \A h \in Handles :
                (hclosed[h] /\ ~\E t \in Threads :
                    th[t].h = h /\ pc[t] \in {"close_decr"}) => hdecs[h] = 1
          /\ \A c \in 1..Len(conns) : conns[c].closes <= 1)
    /\ [][\A t \in Threads :
            (pc[t] = "close_check" /\ hclosed[th[t].h] /\ pc'[t] # pc[t]) =>
                /\ pc'[t] = "idle"
                /\ <<serials, refcounts, locks, lock_held, conns>>' =
                   <<serials, refcounts, locks, lock_held, conns>>
                /\ handle_vars' = handle_vars]_vars

\* A second close() of a Port, by another thread than the first, finds it
\* closed with its one decrement done.
C7_Witness ==
    \E t1, t2 \in Threads :
        /\ t1 # t2
        /\ pc[t1] = "close_sclose"
        /\ pc[t2] = "close_check"
        /\ hclosed[th[t2].h]
        /\ hdecs[th[t2].h] = 1

(***************************************************************************)
(* C8: an operation on a Port of name B needs only B's own lock: each of   *)
(* its steps can be taken whenever that lock is free or its own, whoever   *)
(* holds the registry lock.                                                *)
(***************************************************************************)
IoStep(t) ==
    \/ Io_Lookup(t)
    \/ Io_Acquire(t)
    \/ Io_Serial(t)
    \/ Io_Exec_Closed(t)
    \/ Io_Exec_Write(t)
    \/ Io_Exec_WriteThenReadline(t)
    \/ Io_Exec_Read(t)
    \/ Io_Exec_Reset(t)

C8_IoIndependentOfRegistryLock ==
    \A t \in Threads :
        (/\ pc[t] \in {"io_lookup", "io_acquire", "io_serial", "io_exec"}
         /\ pc[t] = "io_acquire" => lock_held[th[t].lock] = 0)
        => ENABLED IoStep(t)

\* A thread holds the registry lock while constructing or closing a Port of
\* one name, and another thread can enter its operation on another name.
C8_Witness ==
    \E t1, t2 \in Threads :
        /\ class_lock = t1
        /\ t2 # t1
        /\ pc[t2] = "io_acquire"
        /\ th[t2].port # th[t1].port
        /\ ENABLED Io_Acquire(t2)

(***************************************************************************)
(* Statements about FlowController.                                        *)
(***************************************************************************)
\* The operations that have ended (returned or raised).
Ended == { n \in 1..Len(fhist) : fhist[n].done }

\* Operation n returned (a value or None) rather than raised.
Returned(n) == fhist[n].outcome.kind \in {"value", "none"}

(***************************************************************************)
(* C9: _read_packet raises the device-failure error whenever the response  *)
(* opcode is FAIL (0xFF), whatever the payload and the requested opcode;   *)
(* it raises the unexpected-response error whenever the response opcode is *)
(* not FAIL and differs from the requested opcode; it returns only when a  *)
(* response was read whose opcode equals the requested opcode.             *)
(***************************************************************************)
C9_ResponseValidation ==
    \A n \in Ended :
        LET h == fhist[n]
        IN  /\ (h.read /\ h.resp # <<>>) =>
                  /\ h.resp[1] = FAIL => h.outcome.kind = "device_failure"
                  /\ (h.resp[1] # FAIL /\ h.resp[1] # h.code) =>
                         h.outcome.kind = "unexpected"
            /\ Returned(n) => (h.read /\ h.resp # <<>> /\ h.resp[1] = h.code)

\* One operation read a FAIL response that carries a payload and raised the
\* device failure; another requested SET_PUMP_RPM (0x02), read opcode 0x05
\* and raised the unexpected-response error.
C9_Witness ==
    \E n, m \in Ended :
        /\ fhist[n].read
        /\ Len(fhist[n].resp) > 1
        /\ fhist[n].resp[1] = FAIL
        /\ fhist[n].code # FAIL
        /\ fhist[n].outcome.kind = "device_failure"
        /\ fhist[m].read
        /\ fhist[m].code = SET_PUMP_RPM
        /\ fhist[m].resp = <<5>>
        /\ fhist[m].outcome.kind = "unexpected"

(***************************************************************************)
(* C10: every operation transmits exactly one request frame and, before it *)
(* returns, reads exactly one response frame, the one that answers its own *)
(* request; and whenever request N+1 has been sent, the response to        *)
(* request N has been read (by operation N, completely).                   *)
(***************************************************************************)
\* Operation n read the response to its own request, all of it and nothing
\* else.
ReadOwnResponse(n) ==
    /\ fhist[n].done
    /\ fhist[n].owners = {n}
    /\ n \notin Owners(fown)
    /\ dev_n >= n

C10_HalfDuplex ==
    /\ \A n \in 1..Len(fhist) : OneFrame(fhist[n].sent)
    /\ \A n \in Ended : Returned(n) => ReadOwnResponse(n)
    /\ \A n \in 1..(nops - 1) : ReadOwnResponse(n)

(***************************************************************************)
(* C11: after an operation failed with the device failure, the unexpected  *)
(* response error or a read timeout, the next operation on the same        *)
(* transport takes as its response only bytes of the response the device   *)
(* sent to that next request: no stale or partial bytes of an earlier      *)
(* exchange.                                                               *)
(***************************************************************************)
FailedCommand(n) ==
    fhist[n].outcome.kind \in {"device_failure", "unexpected", "timeout"}

C11_ReusableAfterFailure ==
    \A n \in Ended :
        (n > 1 /\ FailedCommand(n - 1)) => fhist[n].owners \subseteq {n}

(***************************************************************************)
(* Statements about PacketStream.read on arbitrary input.                  *)
(***************************************************************************)
\* Some byte of s at the positions lo..hi is 0x00.
ZeroIn(s, lo, hi) == \E i \in lo..hi : s[i] = 0

\* The position of the first 0x00 of s after position e, 0 when none.
NextZero(s, e) ==
    IF \E i \in (e + 1)..Len(s) : s[i] = 0
    THEN CHOOSE i \in (e + 1)..Len(s) : s[i] = 0 /\ ~ZeroIn(s, e + 1, i - 1)
    ELSE 0

\* Following the length bytes of s from the one at position p: the position
\* of the first length byte all of whose announced data bytes were delivered
\* and have a 0x00 among them; 0 when there is none.
RECURSIVE CorruptRun(_, _)
CorruptRun(s, p) ==
    IF p = 0 \/ p > Len(s) THEN 0
    ELSE IF s[p] = 0 THEN 0
    ELSE IF p + s[p] - 1 > Len(s) THEN 0
    ELSE IF ZeroIn(s, p + 1, p + s[p] - 1) THEN p
    ELSE CorruptRun(s, p + s[p])

(***************************************************************************)
(* C12: when a 0x00 appears among the data bytes that a length byte        *)
(* announced, read consumes input up to and including the next 0x00,       *)
(* raises the data error and returns no part of the frame's data.          *)
(***************************************************************************)
C12_CorruptionDataError ==
    cpc = "read" =>
        LET p == CorruptRun(seen, FirstNonZero(seen))
        IN  p # 0 =>
              /\ res.status = "corrupt"
              /\ res.out = <<>>
              /\ NextZero(seen, p + seen[p] - 1) # 0
              /\ wire = Drop(seen, NextZero(seen, p + seen[p] - 1))

(***************************************************************************)
(* C13: whenever fewer bytes than requested are delivered at any point of  *)
(* decoding a frame, read raises TimeoutError; it returns only after the   *)
(* frame's terminator was read, never a partially decoded frame.           *)
(***************************************************************************)
\* Following the reads of the decoder on s from the length byte at p (0:
\* none was delivered): some read finds fewer bytes than it asks for.
RECURSIVE ShortRead(_, _)
ShortRead(s, p) ==
    IF p = 0 \/ p > Len(s) THEN TRUE
    ELSE IF s[p] = 0 THEN FALSE
    ELSE LET e == p + s[p] - 1
         IN  IF e > Len(s) THEN TRUE
             ELSE IF ZeroIn(s, p + 1, e) THEN NextZero(s, e) = 0
             ELSE ShortRead(s, e + 1)

C13_Timeout ==
    cpc = "read" =>
        /\ ShortRead(seen, FirstNonZero(seen)) <=> res.status = "timeout"
        /\ res.status = "timeout" => res.out = <<>>
        /\ res.status = "ok" =>
              /\ Len(seen) > Len(wire)
              /\ seen[Len(seen) - Len(wire)] = 0
              /\ wire = Drop(seen, Len(seen) - Len(wire))

\* The bytes ran out in the second run of a frame (the first run had been
\* decoded) and read raised TimeoutError.
C13_Witness ==
    /\ cpc = "read"
    /\ FirstNonZero(seen) # 0
    /\ seen[FirstNonZero(seen)] = 2
    /\ Len(seen) >= FirstNonZero(seen) + 3
    /\ ~ZeroIn(seen, FirstNonZero(seen), Len(seen))
    /\ res.status = "timeout"

(***************************************************************************)
(* Statements about PacketStream.__init__.                                 *)
(***************************************************************************)
\* Port i is a candidate whose device answers with the frame of [0x00, did].
GoodCandidate(i) ==
    /\ dports[i].vidpid
    /\ dports[i].answer.kind = "id"
    /\ dports[i].answer.id = did

FirstGood ==
    IF \E i \in 1..Len(dports) : GoodCandidate(i)
    THEN CHOOSE i \in 1..Len(dports) :
            GoodCandidate(i) /\ \A j \in 1..(i - 1) : ~GoodCandidate(j)
    ELSE 0

ReadsOpen(v) == ValveDriver_getitem(coils, v) = "open"
CommandedOpen(v) == coils[WriteAddr(v)]
TreeSet(t) == { t.all[i] : i \in 1..Len(t.all) }
PatternOf(t, label) == DictGet(t.labels_to_states, label)
\* The table of t is the default one: label i for the binary digits of i.
DefaultLabels(t) ==
    t.labels_to_states =
        [i \in 1..Pow2(Len(t.zeros)) |-> <<IntLabel(i - 1), Format(i - 1, Len(t.zeros))>>]
\* The setter was called with label and has returned; nothing was written
\* since.
WasSet(label) == ~Calling /\ vcall.label = label

(***************************************************************************)
(* C15: for a TreeValves with default labels, from any valve               *)
(* configuration, setting state to a default label k and then reading      *)
(* state returns k; setting "open" leaves all 2N valves commanded open and *)
(* setting "closed" leaves all 2N valves commanded closed.                 *)
(***************************************************************************)
C15_TreeRoundTrip ==
    DefaultLabels(vtree) =>
        /\ WasSet(OpenLabel) => \A v \in TreeSet(vtree) : CommandedOpen(v)
        /\ WasSet(ClosedLabel) => \A v \in TreeSet(vtree) : ~CommandedOpen(v)
        /\ \A k \in 0..(Pow2(Len(vtree.zeros)) - 1) :
              (WasSet(IntLabel(k)) /\ vobs.op = "state") => vobs.result = IntLabel(k)

\* The (label, pattern) pairs the configuration supplied.
Supplied(t) ==
    IF t.states.kind = "dict"
    THEN { t.states.items[i] : i \in 1..Len(t.states.items) }
    ELSE { <<t.states.items[i], Format(i - 1, Len(t.zeros))>> :
              i \in 1..Len(t.states.items) }

(***************************************************************************)
(* C16: when the configuration supplies a label L for a pattern p, the     *)
(* label-to-pattern map takes L to p and the pattern-to-label map takes p  *)
(* back to L (checked after the setter was called with L).                 *)
(***************************************************************************)
C16_LabelMapBidirectional ==
    \A e \in Supplied(vtree) :
        WasSet(e[1]) =>
            /\ DictGet(vtree.labels_to_states, e[1]) = e[2]
            /\ DictHas(vtree.states_to_labels, e[2])
            /\ DictGet(vtree.states_to_labels, e[2]) = e[1]

\* The pattern the valves of t read as: per pair 'o' when both read open,
\* '0' when only the zeros valve does, '1' when only the ones valve does,
\* 'x' when neither does.
ReadPattern(t) ==
    [i \in 1..Len(t.zeros) |->
        CASE ReadsOpen(t.zeros[i]) /\ ReadsOpen(t.ones[i]) -> "o"
          [] ReadsOpen(t.zeros[i]) /\ ~ReadsOpen(t.ones[i]) -> "0"
          [] ~ReadsOpen(t.zeros[i]) /\ ReadsOpen(t.ones[i]) -> "1"
          [] OTHER -> "x"]
\* The labels registered for pattern p.
Registered(t, p) ==
    { t.labels_to_states[i][1] :
         i \in { j \in 1..Len(t.labels_to_states) : t.labels_to_states[j][2] = p } }

(***************************************************************************)
(* C17: TreeValves.state returns "open" iff all 2N valves read open and    *)
(* "closed" iff none does; otherwise it returns a label registered for the *)
(* pattern the pairs read as, and "invalid" exactly when no label is       *)
(* registered for that pattern.                                            *)
(***************************************************************************)
C17_ReadClassification ==
    vobs.op = "state" =>
        LET all_open == \A v \in TreeSet(vtree) : ReadsOpen(v)
            none_open == \A v \in TreeSet(vtree) : ~ReadsOpen(v)
            labels == Registered(vtree, ReadPattern(vtree))
        IN  /\ vobs.result = OpenLabel <=> all_open
            /\ vobs.result = ClosedLabel <=> none_open
            /\ (~all_open /\ ~none_open /\ labels # {}) => vobs.result \in labels
            /\ vobs.result = InvalidLabel <=> (~all_open /\ ~none_open /\ labels = {})

\* The getter returned the label of a pattern with a wildcard pair.
C17_Witness ==
    /\ vobs.op = "state"
    /\ vobs.result = StrLabel("A")
    /\ \E i \in 1..Len(vtree.zeros) : ReadPattern(vtree)[i] = "o"
    /\ \E i \in 1..Len(vtree.zeros) : ReadPattern(vtree)[i] = "0"

\* The valves the pattern of label opens.
PatternOpens(t, label) ==
    { t.zeros[i] : i \in { j \in 1..Len(t.zeros) : PatternOf(t, label)[j] \in {"0", "o"} } }
        \cup { t.ones[i] : i \in { j \in 1..Len(t.ones) : PatternOf(t, label)[j] \in {"1", "o"} } }
\* A setter call with a label other than "open"/"closed" is under way or
\* has just returned.
PatternCall == vcall.label \notin {NoLabel, OpenLabel, ClosedLabel}
NowOpen == { v \in TreeSet(vtree) : CommandedOpen(v) }

C19_ValveAddressing ==
    [][\A idx \in ValveIndices, state \in {"open", "closed"} :
          ValveDriver_set(idx, state) =>
              /\ ReadAddr(idx) = WriteAddr(idx)
              /\ ValveDriver_getitem(coils', idx) = state
              /\ \A j \in ValveIndices \ {idx} :
                    ValveDriver_getitem(coils', j) = ValveDriver_getitem(coils, j)]_vars

GroupOpen == { i \in 1..Len(vgrp) : ReadsOpen(vgrp[i]) }

(***************************************************************************)
(* C20: a Valves group compares equal to "open" iff every member valve     *)
(* reads open and equal to "closed" iff no member valve reads open; a      *)
(* group with some but not all valves open equals neither, and an object   *)
(* other than these two strings equals no group; Chip.valves reports the   *)
(* group as "closed" exactly when no member reads open, else as "open".    *)
(***************************************************************************)
C20_GroupComparison ==
    /\ (vobs.op = "eq" /\ vobs.other = "open") =>
           (vobs.flag <=> GroupOpen = 1..Len(vgrp))
    /\ (vobs.op = "eq" /\ vobs.other = "closed") =>
           (vobs.flag <=> GroupOpen = {})
    /\ (vobs.op = "eq" /\ GroupOpen \notin {{}, 1..Len(vgrp)}) => ~vobs.flag
    /\ vobs.op = "valves" =>
           /\ vobs.result = ClosedLabel <=> GroupOpen = {}
           /\ vobs.result = OpenLabel <=> GroupOpen # {}

\* A group with one valve open and one closed was compared with "open".
C20_Witness ==
    /\ vobs.op = "eq"
    /\ vobs.other = "open"
    /\ GroupOpen \notin {{}, 1..Len(vgrp)}
    /\ ~vobs.flag

(***************************************************************************)
(* C22: reading or writing a ValveDriver index i with i < 0 or             *)
(* i >= num_valves raises an index error at that call, makes no request to *)
(* the Modbus client, and leaves every coil as it was.                     *)
(***************************************************************************)
C22_IndexError ==
    [][\A idx \in {i \in (0 - 1)..NumValves : i < 0 \/ i >= NumValves} :
          ((\E state \in {"open", "closed"} : ValveDriver_set(idx, state))
              \/ ValveDriver_get(idx)) =>
              /\ vobs'.result = StrLabel("IndexError")
              /\ vobs'.req = "none"
              /\ coils' = coils]_vars

\* driver[-1] = ... has raised.
C22_Witness ==
    /\ vobs.op = "setitem"
    /\ vobs.idx < 0
    /\ vobs.result = StrLabel("IndexError")

\* The valves of the path named key.
PathValves(key) ==
    IF vmap[key] # "Valves" THEN TreeSet(vtree) ELSE { vgrp[i] : i \in 1..Len(vgrp) }

(***************************************************************************)
(* C21: the path names of a Chip are fixed at construction: no read or     *)
(* write changes the mapping or adds an attribute; a read or write with a  *)
(* name that is no path raises and touches no valve; a write with a path   *)
(* name writes only valves of that path, every member valve when the path  *)
(* is a Valves group.                                                      *)
(***************************************************************************)
C21_PathNamesFixed ==
    [][/\ vmap' = vmap
       /\ vattrs' = vattrs
       /\ vobs'.op = "chip_get" =>
             /\ coils' = coils
             /\ vobs'.other \notin DOMAIN vmap => vobs'.result = StrLabel("KeyError")
       /\ vobs'.op = "chip_set" =>
             IF vobs'.other \notin DOMAIN vmap
             THEN vobs'.result = StrLabel("KeyError") /\ coils' = coils
             ELSE /\ \A a \in CoilAddrs :
                        coils'[a] # coils[a] =>
                            a \in { WriteAddr(v) : v \in PathValves(vobs'.other) }
                  /\ vmap[vobs'.other] = "Valves" =>
                        \A v \in PathValves(vobs'.other) :
                            coils'[WriteAddr(v)] = (vobs'.arg = OpenLabel)]_vars

\* A write to a name that is no path has raised.
C21_Witness ==
    /\ vobs.op = "chip_set"
    /\ vobs.other = "outlet"
    /\ vobs.result = StrLabel("KeyError")
    /\ DOMAIN vmap = {"inlet", "mux"}

(***************************************************************************)
(* Sipper: helpers for the statements about wells.                         *)
(***************************************************************************)
\* The plate position a label stands for.
WellPos(label) == MappingGet(scfg.mapping, label)

\* A position of the 8 x 12 plate: row A..H, column 1..12.
OnPlate(pos) == FullMatch(pos) /\ ParseInt(Tail(pos)) \in 1..MaxColumn

\* The moves the last operation wrote to the CNC socket.
Moves == SelectSeq(scall.log, LAMBDA c : c.sock = "cnc" /\ c.cmd[1] = 1)

\* The XY position of a plate position: A1 at a1_pos, H12 at h12_pos.
PlateXY(pos) ==
    <<scfg.a1[1] + ((ParseInt(Tail(pos)) - 1) * (scfg.h12[1] - scfg.a1[1])) \div ColSpan,
      scfg.a1[2] + (RowIndex(pos[1]) * (scfg.h12[2] - scfg.a1[2])) \div RowSpan>>

(***************************************************************************)
(* C23: setting the well to a valid well issues three moves, in this       *)
(* order: Z raised to 0 at the XY position held before, the XY move with   *)
(* Z at 0, and the move that lowers Z to z_bottom at the new XY position.  *)
(***************************************************************************)
C23_WellMoveOrdering ==
    (scall.op = "well" /\ scall.arg # NoneWell /\ OnPlate(WellPos(scall.arg))) =>
        /\ Len(Moves) = 3
        /\ Moves[1].cmd = <<1, scall.pre.xyz[1], scall.pre.xyz[2], 0>>
        /\ Moves[2].cmd[4] = 0
        /\ Moves[3].cmd = <<1, Moves[2].cmd[2], Moves[2].cmd[3], scfg.z_bottom>>

(***************************************************************************)
(* C24: setting the well to a label whose row is outside A..H or whose     *)
(* column is outside 1..12 raises ValueError before any command is sent,   *)
(* and the stored well and position stay as they were.                     *)
(***************************************************************************)
C24_WellBoundsCheck ==
    (scall.op = "well" /\ scall.arg # NoneWell /\ ~OnPlate(WellPos(scall.arg))) =>
        /\ scall.result = "ValueError"
        /\ scall.log = <<>>
        /\ sip = scall.pre

(***************************************************************************)
(* C25: for every valid well label and every corner configuration, the     *)
(* well setter completes and the well then reads as that label.            *)
(***************************************************************************)
C25_WellRoundTrip ==
    (scall.op = "well" /\ scall.arg # NoneWell /\ OnPlate(WellPos(scall.arg))) =>
        /\ scall.result = ""
        /\ sip.well = scall.arg

(***************************************************************************)
(* C26: the well read is a label only when the XY position is that well's  *)
(* position and Z is lowered to z_bottom; otherwise it is the no-well      *)
(* value.                                                                  *)
(***************************************************************************)
C26_WellReflectsPosition ==
    sip.well # NoneWell =>
        /\ OnPlate(WellPos(sip.well))
        /\ <<sip.xyz[1], sip.xyz[2]>> = PlateXY(WellPos(sip.well))
        /\ sip.xyz[3] = scfg.z_bottom

(***************************************************************************)
(* C27: when the xyz setter has returned and recorded a position, the      *)
(* device has confirmed that it is at that position.                       *)
(***************************************************************************)
C27_BlockingPositionWrite ==
    (scall.op = "xyz" /\ scall.result = "") =>
        /\ Moves # <<>>
        /\ Moves[Len(Moves)].ack
        /\ sdev.xyz = sip.xyz

(***************************************************************************)
(* C28: purge does not finish before the air-bubble flag was read true.    *)
(***************************************************************************)
C28_PurgeUntilAir ==
    (scall.op = "purge" /\ scall.result = "") => scall.air = "true"

(***************************************************************************)
(* run: helpers.                                                           *)
(***************************************************************************)
\* The first n segments of the generator, in order.
Segments(n) == [i \in 1..n |-> i]

(***************************************************************************)
(* C29: run(f) returns a session, the worker executes the segments of      *)
(* f(session) in order, f is handed the object run returned, and when      *)
(* neither pause() nor quit() was called join() returns only after the     *)
(* generator was run to exhaustion.                                        *)
(***************************************************************************)
C29_RunExecutes ==
    /\ rmain # "raised"
    /\ rlog = Segments(Len(rlog))
    /\ rhist.passed # "none" => rhist.passed = rhist.returned
    /\ (rhist.joined /\ ~rhist.paused /\ ~rhist.quit_called) =>
           wend = "exhausted" /\ rlog = Segments(rgen + 1)

(***************************************************************************)
(* C30 as stated: once quit() has returned on a worker that was still      *)
(* running, the worker starts at most one further segment and then ends    *)
(* by the break, never by exhausting the generator, and a join() called    *)
(* next returns.                                                           *)
(***************************************************************************)
C30_QuitStopsWorker ==
    /\ []((rhist.quit_returned /\ rhist.alive) =>
             /\ rhist.after <= 1
             /\ rhist.after = 1 => wpc # "next"
             /\ wpc = "done" => wend = "break")
    /\ (rmain = "join" /\ rhist.before_join = "quit") ~> (rmain = "idle")

(***************************************************************************)
(* C30, amended: once quit() has returned, the worker starts at most one   *)
(* further segment and then ends, by the break or, when that segment was   *)
(* the generator's last, by exhaustion; a join() called next returns.      *)
(***************************************************************************)
C30_QuitEndsWorker ==
    /\ [](rhist.quit_returned =>
             /\ rhist.after <= 1
             /\ rhist.after = 1 => wpc # "next"
             /\ wpc = "done" => \/ wend = "break"
                                \/ wend = "exhausted" /\ rlog = Segments(rgen + 1))
    /\ (rmain = "join" /\ rhist.before_join = "quit") ~> (rmain = "idle")

\* quit() returned between the worker's test of _quit and its next(): the
\* worker ran one more segment, broke out, and the join() that followed
\* returned with the generator not exhausted.
C30_Witness ==
    /\ rhist.quit_returned
    /\ rhist.alive
    /\ rhist.after = 1
    /\ wend = "break"
    /\ rhist.before_join = "quit"
    /\ rhist.joined
    /\ Len(rlog) <= rgen

(***************************************************************************)
(* C33: for every valid well the XY move of the well setter goes to        *)
(* (a1.x + c * (h12.x - a1.x) / 11, a1.y + r * (h12.y - a1.y) / 7), with c *)
(* and r the 0-indexed column and row, whichever corner has the smaller    *)
(* coordinate on an axis.                                                  *)
(***************************************************************************)
C33_WellTransform ==
    (scall.op = "well" /\ scall.arg # NoneWell /\ OnPlate(WellPos(scall.arg))) =>
        /\ Len(Moves) >= 2
        /\ <<Moves[2].cmd[2], Moves[2].cmd[3]>> = PlateXY(WellPos(scall.arg))

\* The cached fields the devices acknowledge.
Cached(c) == <<c.xyz, c.valve, c.voltage, c.frequency>>

(***************************************************************************)
(* C37: the cached position, pump voltage and pump frequency equal what    *)
(* the devices last acknowledged, so does the cached valve once the valve  *)
(* was commanded, and an operation that raised or had an exchange without  *)
(* acknowledgement has left these cached values as they were.              *)
(***************************************************************************)
C37_CacheIsAcknowledged ==
    /\ sip.xyz = sdev.xyz
    /\ sip.voltage = sdev.voltage
    /\ sip.frequency = sdev.frequency
    /\ sdev.valve # None => sip.valve = sdev.valve
    /\ (scall.op # "init"
           /\ (scall.result # "" \/ \E i \in 1..Len(scall.log) : ~scall.log[i].ack)) =>
           Cached(sip) = Cached(scall.pre)

(***************************************************************************)
(* C35: once quit() has been called the worker thread eventually ends,     *)
(* whatever pause() and resume() calls come before or after it.            *)
(***************************************************************************)
C35_QuitAlwaysWins == rhist.quit_called ~> (wpc = "done")

\* The handles of port name n that were constructed and not closed.
LiveHandles(n) == { h \in Handles : Live(h) /\ hname[h] = n }

\* The three tables agree on n, and its count is the number of live handles.
Consistent(n) ==
    /\ (n \in DOMAIN serials) = (n \in DOMAIN refcounts)
    /\ (n \in DOMAIN serials) = (n \in DOMAIN locks)
    /\ n \in DOMAIN refcounts =>
          /\ refcounts[n] >= 1
          /\ refcounts[n] = Cardinality(LiveHandles(n))

(***************************************************************************)
(* C34 as stated: in every reachable state a port name is in the           *)
(* connection, count and lock tables in all three or in none, and its      *)
(* count is at least 1 and is the number of handles of that name           *)
(* constructed and not yet closed.                                         *)
(***************************************************************************)
C34_RegistryConsistentAlways == \A n \in Ports : Consistent(n)

(***************************************************************************)
(* C34, amended: the same, in every state in which no thread holds the     *)
(* registry lock, that is, is inside the with block of Port.__init__ or of *)
(* Port.close.                                                             *)
(***************************************************************************)
C34_RegistryConsistent == class_lock = 0 => \A n \in Ports : Consistent(n)

\* Three handles of one name were constructed and one of them closed: the
\* name is registered with count 2, and no thread holds the registry lock.
C34_Witness ==
    /\ class_lock = 0
    /\ \E n \in Ports :
          /\ n \in DOMAIN refcounts
          /\ refcounts[n] = 2
          /\ \E h \in Handles : hstate[h] = "live" /\ hclosed[h] /\ hname[h] = n

(***************************************************************************)
(* C39: the connection of a port is never closed while a handle operation  *)
(* on it is in progress under the port's I/O lock, and an operation of a   *)
(* handle that has been closed never gets at the connection.               *)
(***************************************************************************)
C39_NoCloseUnderIo ==
    /\ [](\A t \in Threads : pc[t] = "io_exec" => conns[th[t].conn].open)
    /\ [][\A t \in Threads :
             (pc[t] = "io_serial" /\ pc'[t] = "io_exec") => ~hclosed[th[t].h]]_vars

\* The labels a tree has a pattern for: those the configuration supplied
\* and the default integers 0 .. 2^N - 1.
KnownLabels(t) ==
    { p[1] : p \in Supplied(t) } \cup { IntLabel(i) : i \in 0..(Pow2(Len(t.zeros)) - 1) }

UnknownLabel(label) == label \notin ({OpenLabel, ClosedLabel} \cup KnownLabels(vtree))

(***************************************************************************)
(* C40: setting the tree state, through the TreeValves or through the      *)
(* Chip path of the tree, to a label that is neither "open", "closed" nor  *)
(* registered raises KeyError at that call: no setter run is begun and no  *)
(* coil is written.                                                        *)
(***************************************************************************)
C40_UnknownLabelChangesNothing ==
    [][\A label \in SetLabels :
          (UnknownLabel(label)
             /\ (TreeValves_state_set(label) \/ Chip_setattr("mux", label))) =>
              /\ vobs'.result = StrLabel("KeyError")
              /\ coils' = coils
              /\ vcall' = vcall]_vars

\* chip.mux = "Z" has raised on a chip whose tree has some valve open.
C40_Witness ==
    /\ vobs.op = "chip_set"
    /\ vobs.other = "mux"
    /\ vobs.arg = StrLabel("Z")
    /\ vobs.result = StrLabel("KeyError")
    /\ \E v \in TreeSet(vtree) : CommandedOpen(v)

\* What the tree read as before the call under way: the valves open then.
CoilsBefore ==
    [a \in CoilAddrs |-> \E v \in vcall.prev : a \in {ReadAddr(v), WriteAddr(v)}]

(***************************************************************************)
(* C38: while one thread sets the tree state from label A to label B,      *)
(* every value another thread reads is A, B or "closed": never "invalid"   *)
(* and never the label of a third path.  Stated for a tree with the        *)
(* default labels, where each pattern has one label, and for A and B       *)
(* labels of paths.                                                        *)
(***************************************************************************)
C38_ConcurrentReads ==
    (/\ vobs.op = "poll"
     /\ DefaultLabels(vtree)
     /\ vcall.label.int
     /\ TreeValves_state(CoilsBefore, vtree).int) =>
        vobs.result \in {TreeValves_state(CoilsBefore, vtree), vcall.label, ClosedLabel}

\* What follows the terminating delimiter of the first frame of s: the
\* first 0x00 after the frame's first length byte.
AfterFirstFrame(s) == Drop(s, NextZero(s, FirstNonZero(s)))

(***************************************************************************)
(* C36: after read has raised the data error, the next read returns the    *)
(* payload of the first intact frame that begins after the corrupted       *)
(* frame's terminating delimiter (stated for the case that the frame right *)
(* after that delimiter is intact).                                        *)
(***************************************************************************)
C36_ResyncLosesNoFrame ==
    [][(/\ cpc = "read"
        /\ res.status = "corrupt"
        /\ seen' = wire
        /\ PacketStream_read(AfterFirstFrame(seen)).status = "ok") =>
           /\ res'.status = "ok"
           /\ res'.out = PacketStream_read(AfterFirstFrame(seen)).out]_vars

\* The first device of the list with protocol proto, and the first with
\* that protocol and name; 0 when there is none.
FirstOf(proto) ==
    IF \E i \in 1..Len(devices) : proto \in devices[i].protos
    THEN CHOOSE i \in 1..Len(devices) :
            /\ proto \in devices[i].protos
            /\ \A j \in 1..(i - 1) : proto \notin devices[j].protos
    ELSE 0
Matching(proto, name) ==
    { i \in 1..Len(devices) : devices[i].name = name /\ proto \in devices[i].protos }

TileStep(size) ==
    (size - PyRound(targs.overlap.num * size, targs.overlap.den)) * targs.px_len

\* The coordinates cs start at first and go on in steps of step.
InSteps(cs, first, step) == \A i \in 1..Len(cs) : cs[i] = first + (i - 1) * step

\* The claim's words for one axis: cs starts at first, goes on in steps of
\* step and has every such coordinate smaller than last + step - 1.
StartsAndCovers(cs, first, last, step) ==
    /\ Len(cs) >= 1
    /\ InSteps(cs, first, step)
    /\ first + Len(cs) * step >= last + step - Unit
    /\ cs[Len(cs)] < last + step - Unit

\* The same without the assumption that there is a first coordinate: cs is
\* empty when first is not smaller than last + step - 1.
Covers(cs, first, last, step) ==
    /\ InSteps(cs, first, step)
    /\ first + Len(cs) * step >= last + step - Unit
    /\ \A i \in 1..Len(cs) : cs[i] < last + step - Unit
    /\ Len(cs) = 0 <=> first >= last + step - Unit

====
